---- MODULE Spec2Model ----
(***************************************************************************)
(* QuizWind: the quiz engine (src/core/quiz-engine.ts) and the progress    *)
(* tracker (src/core/progress-tracker.ts) as state machines over the       *)
(* values their callers hold, and the shell around them: the countdown     *)
(* timer (shell/timer.ts), the storage (shell/storage.ts) and the modes of *)
(* the application (shell/main.ts).                                        *)
(***************************************************************************)
EXTENDS Integers, Sequences, FiniteSets

(***************************************************************************)
(* JavaScript numbers.  Every `number` in the core is an IEEE-754 double.  *)
(* Counters stay small integers, which a double holds exactly; quotients   *)
(* and their sums do not, so they are computed here as the hardware        *)
(* computes them: the exact result rounded to 53 significant bits, ties to *)
(* even.  A double x >= 0 is held as the natural number x * 2^FracBits,    *)
(* written in limbs of LimbBits bits, least significant limb first.  All   *)
(* doubles the core forms from the bounded inputs below are at least 2^-20 *)
(* when not zero, so with 53 significant bits they are whole multiples of  *)
(* 2^-FracBits and the representation is exact.                            *)
(***************************************************************************)
LimbBits == 5 * 3
Base == 2^LimbBits
FracLimbs == 4 + 1
FracBits == FracLimbs * LimbBits
Precision == 50 + 3

RECURSIVE BigTrim(_)
BigTrim(n) ==
    IF n = <<>> THEN <<>>
    ELSE IF n[Len(n)] = 0 THEN BigTrim(SubSeq(n, 1, Len(n) - 1))
    ELSE n

RECURSIVE BigFromInt(_)
BigFromInt(k) == IF k = 0 THEN <<>> ELSE <<k % Base>> \o BigFromInt(k \div Base)

RECURSIVE BigToInt(_)
BigToInt(n) == IF n = <<>> THEN 0 ELSE Head(n) + Base * BigToInt(Tail(n))

RECURSIVE BigAddCarry(_, _, _)
BigAddCarry(a, b, carry) ==
    IF a = <<>> /\ b = <<>>
    THEN IF carry = 0 THEN <<>> ELSE <<carry>>
    ELSE LET x == IF a = <<>> THEN 0 ELSE Head(a)
             y == IF b = <<>> THEN 0 ELSE Head(b)
             s == x + y + carry
         IN  <<s % Base>> \o BigAddCarry(IF a = <<>> THEN <<>> ELSE Tail(a),
                                         IF b = <<>> THEN <<>> ELSE Tail(b),
                                         s \div Base)

BigAdd(a, b) == BigAddCarry(a, b, 0)

\* a - b for a >= b
RECURSIVE BigSubBorrow(_, _, _)
BigSubBorrow(a, b, borrow) ==
    IF a = <<>> THEN <<>>
    ELSE LET y == IF b = <<>> THEN 0 ELSE Head(b)
             s == Head(a) - y - borrow
         IN  <<s % Base>> \o BigSubBorrow(Tail(a),
                                          IF b = <<>> THEN <<>> ELSE Tail(b),
                                          IF s < 0 THEN 1 ELSE 0)

BigSub(a, b) == BigTrim(BigSubBorrow(a, b, 0))

RECURSIVE BigMulCarry(_, _, _)
BigMulCarry(a, k, carry) ==
    IF a = <<>> THEN BigFromInt(carry)
    ELSE LET s == Head(a) * k + carry
         IN  <<s % Base>> \o BigMulCarry(Tail(a), k, s \div Base)

\* a * k for a small factor 0 < k <= Base
BigMulSmall(a, k) == BigMulCarry(a, k, 0)

\* long division of the limbs a[1..i] by a small divisor 0 < t <= Base,
\* entering with remainder r from the limbs above
RECURSIVE BigDivStep(_, _, _, _)
BigDivStep(a, i, t, r) ==
    IF i = 0 THEN [q |-> <<>>, r |-> r]
    ELSE LET cur  == r * Base + a[i]
             rest == BigDivStep(a, i - 1, t, cur % t)
         IN  [q |-> Append(rest.q, cur \div t), r |-> rest.r]

BigDivSmall(a, t) ==
    LET d == BigDivStep(a, Len(a), t, 0) IN [q |-> BigTrim(d.q), r |-> d.r]

RECURSIVE BitLen(_)
BitLen(k) == IF k = 0 THEN 0 ELSE 1 + BitLen(k \div 2)

BigBitLen(n) == IF n = <<>> THEN 0 ELSE LimbBits * (Len(n) - 1) + BitLen(n[Len(n)])

\* a >= b, both without leading zero limbs
RECURSIVE BigGeqFrom(_, _, _)
BigGeqFrom(a, b, i) ==
    IF i = 0 THEN TRUE
    ELSE IF a[i] # b[i] THEN a[i] > b[i]
    ELSE BigGeqFrom(a, b, i - 1)

BigGeq(a, b) ==
    IF Len(a) # Len(b) THEN Len(a) > Len(b) ELSE BigGeqFrom(a, b, Len(a))

\* n * 2^d
BigShl(n, d) ==
    IF n = <<>> THEN <<>>
    ELSE [i \in 1..(d \div LimbBits) |-> 0] \o BigMulSmall(n, 2^(d % LimbBits))

\* floor(n / 2^d), and whether a nonzero bit was shifted out
BigShr(n, d) ==
    LET w    == d \div LimbBits
        low  == IF w >= Len(n) THEN n ELSE SubSeq(n, 1, w)
        high == IF w >= Len(n) THEN <<>> ELSE SubSeq(n, w + 1, Len(n))
        dv   == BigDivSmall(high, 2^(d % LimbBits))
    IN  [q |-> dv.q, lost |-> (dv.r # 0) \/ (\E i \in 1..Len(low) : low[i] # 0)]

\* The double nearest to n (sticky: the exact value lies strictly between n
\* and n+1): round to Precision significant bits, ties to even.
RoundToDouble(n, sticky) ==
    IF BigBitLen(n) <= Precision THEN n
    ELSE LET d     == BigBitLen(n) - Precision
             s1    == BigShr(n, d - 1)
             q     == BigShr(s1.q, 1).q
             half  == s1.q[1] % 2 = 1
             odd   == q[1] % 2 = 1
             up    == half /\ (s1.lost \/ sticky \/ odd)
         IN  BigShl(IF up THEN BigAdd(q, <<1>>) ELSE q, d)

\* the double holding the integer k >= 0
Num(k) == BigShl(BigFromInt(k), FracBits)

\* a / t on two integer-valued doubles, a >= 0, t > 0
NumDiv(a, t) ==
    LET dv == BigDivSmall(Num(a), t) IN RoundToDouble(dv.q, dv.r # 0)

\* x * k for a double x and an integer-valued double k
NumMul(x, k) == RoundToDouble(BigMulSmall(x, k), FALSE)

NumAdd(x, y) == RoundToDouble(BigAdd(x, y), FALSE)

\* x - y for x >= y
NumSub(x, y) == RoundToDouble(BigSub(x, y), FALSE)

NumGeq(x, y) == BigGeq(x, y)

\* Math.max(0, k - y) for an integer k: the difference is negative or zero
\* exactly when y >= k
MathMaxZeroMinus(k, y) == IF NumGeq(y, Num(k)) THEN <<>> ELSE NumSub(Num(k), y)

\* Math.round(x) for x >= 0: floor(x + 1/2), exactly
MathRound(x) ==
    LET s == BigAdd(x, BigShl(<<1>>, FracBits - 1))
    IN  IF Len(s) <= FracLimbs THEN 0 ELSE BigToInt(SubSeq(s, FracLimbs + 1, Len(s)))

(***************************************************************************)
(* State.  The core is pure: its state is what its callers hold.           *)
(*   focus            the component the caller is exercising               *)
(*   now              the wall clock read by `new Date()`                  *)
(*   session          the caller's current QuizSession                     *)
(*   progressList     the caller's UserProgress records                    *)
(*   currentQuestions the caller's working question list                  *)
(*   args             the inputs a caller holds for a pure function        *)
(*   lastOp           the last core call and its inputs                    *)
(*   argBefore        a copy of that call's argument taken before the call *)
(*   argAfter         the object passed as that argument, after the call   *)
(*   result           the value that call returned                         *)
(*   timer            the countdown timer's remaining and intervalId       *)
(*   intervals        the periodic callbacks the event loop has scheduled  *)
(*   events           the calls to and from the timer, in order            *)
(*   localStorage     the item under the key 'quizwind_progress'           *)
(*   shell            the rest of the module state of shell/main.ts        *)
(***************************************************************************)
VARIABLES focus, now, session, progressList, currentQuestions, args,
          lastOp, argBefore, argAfter, result,
          timer, intervals, events, localStorage, shell

vars == <<focus, now, session, progressList, currentQuestions, args,
          lastOp, argBefore, argAfter, result, timer, intervals, events,
          localStorage, shell>>

\* Bounds of the model
MaxClock == 1
MaxAnswered == 4
MaxAttempts == 6
MaxTotal == 40
MaxElapsed == 2
MaxCount == 2
MaxSweep == 4
MaxList == 3
\* the attempts one record or one topic entry holds
MaxStatAttempts == 2
\* the largest limit handed to getWeakestTopics
MaxLimit == 2
\* the longest countdown, in seconds
MaxDuration == 3
\* the calls made to a timer and by it that one behaviour records
MaxEvents == 7
\* the records of a list that may share question ids
MaxRecords == 3
\* the longest array handed to the shuffle
MaxShuffle == 3
\* the longest list of records saved
MaxSaved == 2
\* the seconds of a countdown within which the user clicks, the recorded
\* outcomes beyond which the user gives no answer and starts no run, and the
\* clicks on navigation buttons
MaxWait == 1
MaxRecorded == 2
MaxNavigations == 2

Min(a, b) == IF a <= b THEN a ELSE b

(***************************************************************************)
(* quiz-engine.ts                                                          *)
(***************************************************************************)
QuizModes == {"quiz", "flashcard", "timed"}

\* the bonus taken from the total time instead of the per-question average
timeBonus_NotAveraged(timeElapsed, totalQuestions) ==
    MathMaxZeroMinus(20, Num(timeElapsed))

\* the bonus with a wrong cut-off: it is still paid at 20 s and starts above 20
timeBonus_WrongCutoff(timeElapsed, totalQuestions) ==
    LET avgTimePerQuestion == NumDiv(timeElapsed, totalQuestions)
    IN  MathMaxZeroMinus(30, avgTimePerQuestion)

\* the timed-mode bonus: Math.max(0, 20 - timeElapsed / totalQuestions)
timeBonus(timeElapsed, totalQuestions) ==
    LET avgTimePerQuestion == NumDiv(timeElapsed, totalQuestions)
    IN  MathMaxZeroMinus(20, avgTimePerQuestion)

\* calculateScore rounding the percentage before the bonus is added
calculateScore_RoundedBase(correctAnswers, totalQuestions, timeElapsed, mode) ==
    LET baseScore == NumMul(NumDiv(correctAnswers, totalQuestions), 100)
    IN  IF mode = "timed"
        THEN MathRound(NumAdd(Num(MathRound(baseScore)),
                              timeBonus(timeElapsed, totalQuestions)))
        ELSE MathRound(baseScore)

\* calculateScore paying the bonus for slow answers: avg - 0 instead of 20 - avg
calculateScore_BonusGrowsWithTime(correctAnswers, totalQuestions, timeElapsed, mode) ==
    LET baseScore == NumMul(NumDiv(correctAnswers, totalQuestions), 100)
        avgTimePerQuestion == NumDiv(timeElapsed, totalQuestions)
    IN  IF mode = "timed"
        THEN MathRound(NumAdd(baseScore, avgTimePerQuestion))
        ELSE MathRound(baseScore)

calculateScore(correctAnswers, totalQuestions, timeElapsed, mode) ==
    LET baseScore == NumMul(NumDiv(correctAnswers, totalQuestions), 100)
    IN  IF mode = "timed"
        THEN MathRound(NumAdd(baseScore, timeBonus(timeElapsed, totalQuestions)))
        ELSE MathRound(baseScore)

createSession(mode) ==
    [mode |-> mode,
     questionsAnswered |-> 0,
     correctAnswers |-> 0,
     timeElapsed |-> 0,
     score |-> 0,
     startTime |-> now]

\* updateSession scoring the latest answer alone instead of the totals
updateSession_LatestAnswerOnly(s, isCorrect, timeTaken) ==
    LET newSession ==
            [s EXCEPT !.questionsAnswered = s.questionsAnswered + 1,
                      !.correctAnswers = s.correctAnswers + (IF isCorrect THEN 1 ELSE 0),
                      !.timeElapsed = s.timeElapsed + timeTaken]
        scored ==
            [newSession EXCEPT !.score = calculateScore(IF isCorrect THEN 1 ELSE 0, 1,
                                                        timeTaken, newSession.mode)]
    IN  [arg |-> s, ret |-> scored]

\* updateSession overwriting the elapsed time instead of adding to it
updateSession_TimeNotAccumulated(s, isCorrect, timeTaken) ==
    LET newSession ==
            [s EXCEPT !.questionsAnswered = s.questionsAnswered + 1,
                      !.correctAnswers = s.correctAnswers + (IF isCorrect THEN 1 ELSE 0),
                      !.timeElapsed = timeTaken]
        scored ==
            [newSession EXCEPT !.score = calculateScore(newSession.correctAnswers,
                                                        newSession.questionsAnswered,
                                                        newSession.timeElapsed,
                                                        newSession.mode)]
    IN  [arg |-> s, ret |-> scored]

\* Returns the object passed in as it is after the call (arg) and the
\* returned object (ret).  newSession is a fresh object ({...session}); the
\* score is assigned on newSession.
updateSession(s, isCorrect, timeTaken) ==
    LET newSession ==
            [s EXCEPT !.questionsAnswered = s.questionsAnswered + 1,
                      !.correctAnswers = s.correctAnswers + (IF isCorrect THEN 1 ELSE 0),
                      !.timeElapsed = s.timeElapsed + timeTaken]
        scored ==
            [newSession EXCEPT !.score = calculateScore(newSession.correctAnswers,
                                                        newSession.questionsAnswered,
                                                        newSession.timeElapsed,
                                                        newSession.mode)]
    IN  [arg |-> s, ret |-> scored]

\* The question catalog (the fixture of quiz-engine.test.ts plus a question
\* with no topic).  An absent optional topic is "".
Question(id, gradeLevel, correctAnswer, topic) ==
    [id |-> id, gradeLevel |-> gradeLevel, correctAnswer |-> correctAnswer, topic |-> topic]

mockQuestions ==
    << Question("q1", "6-8", "a", "wind"),
       Question("q2", "4-5", "b", "solar"),
       Question("q3", "6-8", "c", "wind"),
       Question("q4", "4-5", "d", "") >>

QuestionIds == {mockQuestions[i].id : i \in 1..Len(mockQuestions)}

\* QuizConfig: an absent gradeLevel or topic is "", an absent questionCount
\* is 0 (undefined and 0 are both falsy in `questionCount || length`).
GradeLevelFilters == {"", "all", "4-5", "6-8", "9-12"}
TopicFilters == {"", "wind", "solar"}

\* Math.floor(Math.random() * (i + 1)) for each loop index i, as positions
\* 1..i of a 1-based sequence: ch[i] \in 1..i
RECURSIVE RandomChoices(_)
RandomChoices(n) ==
    IF n = 0 THEN {<<>>}
    ELSE {Append(ch, j) : ch \in RandomChoices(n - 1), j \in 1..n}

Swap(arr, i, j) == [arr EXCEPT ![i] = arr[j], ![j] = arr[i]]

\* the loop stopping one index early: the second position is never swapped
RECURSIVE shuffleLoop_StopsEarly(_, _, _)
shuffleLoop_StopsEarly(shuffled, i, ch) ==
    IF i <= 2 THEN shuffled
    ELSE shuffleLoop_StopsEarly(Swap(shuffled, i, ch[i]), i - 1, ch)

\* the loop of shuffleArray from index i down to 2, on the array shuffled
RECURSIVE shuffleLoop(_, _, _)
shuffleLoop(shuffled, i, ch) ==
    IF i <= 1 THEN shuffled
    ELSE shuffleLoop(Swap(shuffled, i, ch[i]), i - 1, ch)

\* shuffled is a copy ([...array]); the swaps act on the copy
shuffleArray(array, ch) ==
    [arg |-> array, ret |-> shuffleLoop(array, Len(array), ch)]

\* an optional number of a config: <<>> when the property is absent, <<n>>
\* when it is n
Absent == <<>>
Supplied(n) == <<n>>

\* `opt || fallback`: the fallback is taken when opt is absent or 0
OrElse(opt, fallback) == IF opt # Absent /\ opt[1] # 0 THEN opt[1] ELSE fallback

\* if (config.gradeLevel && config.gradeLevel !== 'all') filtered = filtered.filter(...)
filterByGrade(filtered, config) ==
    LET byGrade(q) == q.gradeLevel = config.gradeLevel
    IN  IF config.gradeLevel # "" /\ config.gradeLevel # "all"
        THEN SelectSeq(filtered, byGrade)
        ELSE filtered

\* the topic filter reading the whole catalog instead of the list filtered so far
filterByTopic_FromCatalog(filtered, config) ==
    LET byTopic(q) == q.topic = config.topic
    IN  IF config.topic # ""
        THEN SelectSeq(mockQuestions, byTopic)
        ELSE filtered

\* if (config.topic) filtered = filtered.filter(...)
filterByTopic(filtered, config) ==
    LET byTopic(q) == q.topic = config.topic
    IN  IF config.topic # ""
        THEN SelectSeq(filtered, byTopic)
        ELSE filtered

\* filtered is a copy ([...allQuestions]) and filter() returns new arrays
selectQuestions(allQuestions, config, ch) ==
    LET filtered == filterByTopic(filterByGrade(allQuestions, config), config)
        shuffled == shuffleArray(filtered, ch).ret
        count == OrElse(config.questionCount, Len(shuffled))
    IN  [arg |-> allQuestions, ret |-> SubSeq(shuffled, 1, Min(count, Len(shuffled)))]

\* the length of the array selectQuestions hands to shuffleArray
filteredLength(allQuestions, config) ==
    Len(filterByTopic(filterByGrade(allQuestions, config), config))

AnswerOptions == {"a", "b", "c", "d"}

\* checkAnswer with the comparison inverted
checkAnswer_Inverted(question, answer) == question.correctAnswer # answer

checkAnswer(question, answer) == question.correctAnswer = answer

\* the value null
Null == [null |-> TRUE]

\* questions[currentIndex] of a 0-based array, for an index within it
getNextQuestion(questions, currentIndex) ==
    IF currentIndex >= Len(questions) THEN Null ELSE questions[currentIndex + 1]

\* isQuizComplete comparing with > instead of >=
isQuizComplete_OffByOne(currentIndex, totalQuestions) == currentIndex > totalQuestions

isQuizComplete(currentIndex, totalQuestions) == currentIndex >= totalQuestions

\* the UTF-16 code units of the topic names of the catalog
CodeUnits(str) ==
    CASE str = "wind" -> <<119, 105, 110, 100>>
      [] str = "solar" -> <<115, 111, 108, 97, 114>>

\* the order of Array.prototype.sort without a comparator: strings are
\* compared code unit by code unit, a proper prefix first
RECURSIVE CodeUnitsLess(_, _)
CodeUnitsLess(a, b) ==
    IF b = <<>> THEN FALSE
    ELSE IF a = <<>> THEN TRUE
    ELSE IF Head(a) # Head(b) THEN Head(a) < Head(b)
    ELSE CodeUnitsLess(Tail(a), Tail(b))

stringLess(x, y) == CodeUnitsLess(CodeUnits(x), CodeUnits(y))

\* sort(): insert x after the last element that is not greater than x
RECURSIVE insertString(_, _)
insertString(sorted, x) ==
    IF sorted = <<>> THEN <<x>>
    ELSE LET last == sorted[Len(sorted)]
         IN  IF stringLess(x, last)
             THEN Append(insertString(SubSeq(sorted, 1, Len(sorted) - 1), x), last)
             ELSE Append(sorted, x)

RECURSIVE sortStrings(_)
sortStrings(arr) ==
    IF arr = <<>> THEN <<>>
    ELSE insertString(sortStrings(SubSeq(arr, 1, Len(arr) - 1)), arr[Len(arr)])

\* the Set after questions.forEach: the topics in order of first occurrence
RECURSIVE collectTopics(_, _)
collectTopics(questions, topics) ==
    IF questions = <<>> THEN topics
    ELSE LET q == Head(questions)
             has == \E i \in 1..Len(topics) : topics[i] = q.topic
         IN  collectTopics(Tail(questions),
                           IF q.topic # "" /\ ~has THEN Append(topics, q.topic)
                           ELSE topics)

\* getTopics without the final sort()
getTopics_Unsorted(questions) == collectTopics(questions, <<>>)

getTopics(questions) == sortStrings(collectTopics(questions, <<>>))

\* the priority table with 'mastered' given the value of 'learning'
priority_MasteredAsLearning(mastery) ==
    CASE mastery = "new" -> 0 [] mastery = "learning" -> 1 [] mastery = "mastered" -> 1

priority(mastery) ==
    CASE mastery = "new" -> 0 [] mastery = "learning" -> 1 [] mastery = "mastered" -> 2

\* progressMap.get(id) || 'new' ; the map is a function on the ids it holds
masteryOf(progressMap, id) ==
    IF id \in DOMAIN progressMap THEN progressMap[id] ELSE "new"

\* Array.prototype.sort is stable: insert x after the last element that
\* does not compare greater
RECURSIVE insertSorted(_, _, _)
insertSorted(sorted, x, progressMap) ==
    IF sorted = <<>> THEN <<x>>
    ELSE LET last == sorted[Len(sorted)]
         IN  IF priority(masteryOf(progressMap, last.id))
                  - priority(masteryOf(progressMap, x.id)) <= 0
             THEN Append(sorted, x)
             ELSE Append(insertSorted(SubSeq(sorted, 1, Len(sorted) - 1), x, progressMap), last)

RECURSIVE stableSort(_, _)
stableSort(arr, progressMap) ==
    IF arr = <<>> THEN <<>>
    ELSE insertSorted(stableSort(SubSeq(arr, 1, Len(arr) - 1), progressMap),
                      arr[Len(arr)], progressMap)

\* sortByMasteryPriority sorting the array it was given (questions.sort(...))
sortByMasteryPriority_InPlace(questions, progressMap) ==
    [arg |-> stableSort(questions, progressMap),
     ret |-> stableSort(questions, progressMap)]

\* sort() sorts in place; it is applied to a copy ([...questions])
sortByMasteryPriority(questions, progressMap) ==
    [arg |-> questions, ret |-> stableSort(questions, progressMap)]

(***************************************************************************)
(* progress-tracker.ts                                                     *)
(***************************************************************************)
MasteryLevels == {"new", "learning", "mastered"}

\* the literal 0.8: the double nearest to 8/10
Lit0_8 == NumDiv(8, 10)

\* calculateMastery with accuracy > 0.8 in place of accuracy >= 0.8
calculateMastery_StrictThreshold(progress) ==
    IF progress.attempts < 3 THEN "new"
    ELSE LET accuracy == NumDiv(progress.correctCount, progress.attempts)
         IN  IF progress.attempts >= 5 /\ NumGeq(accuracy, Lit0_8) /\ accuracy # Lit0_8
             THEN "mastered"
             ELSE "learning"

calculateMastery(progress) ==
    IF progress.attempts < 3 THEN "new"
    ELSE LET accuracy == NumDiv(progress.correctCount, progress.attempts)
         IN  IF progress.attempts >= 5 /\ NumGeq(accuracy, Lit0_8)
             THEN "mastered"
             ELSE "learning"

createProgress(questionId) ==
    [questionId |-> questionId,
     attempts |-> 0,
     correctCount |-> 0,
     incorrectCount |-> 0,
     lastAttempted |-> now,
     mastery |-> "new"]

\* updateProgress that never counts an incorrect answer
updateProgress_DropsIncorrect(progress, isCorrect) ==
    LET newProgress ==
            [progress EXCEPT !.attempts = progress.attempts + 1,
                             !.correctCount = progress.correctCount + (IF isCorrect THEN 1 ELSE 0),
                             !.lastAttempted = now]
    IN  [arg |-> progress,
         ret |-> [newProgress EXCEPT !.mastery = calculateMastery(newProgress)]]

\* updateProgress classifying the record as it was before the attempt
updateProgress_StaleMastery(progress, isCorrect) ==
    LET newProgress ==
            [progress EXCEPT !.attempts = progress.attempts + 1,
                             !.correctCount = progress.correctCount + (IF isCorrect THEN 1 ELSE 0),
                             !.incorrectCount = progress.incorrectCount + (IF isCorrect THEN 0 ELSE 1),
                             !.lastAttempted = now]
    IN  [arg |-> progress,
         ret |-> [newProgress EXCEPT !.mastery = calculateMastery(progress)]]

\* updateProgress that never takes 'mastered' back
updateProgress_StickyMastered(progress, isCorrect) ==
    LET newProgress ==
            [progress EXCEPT !.attempts = progress.attempts + 1,
                             !.correctCount = progress.correctCount + (IF isCorrect THEN 1 ELSE 0),
                             !.incorrectCount = progress.incorrectCount + (IF isCorrect THEN 0 ELSE 1),
                             !.lastAttempted = now]
    IN  [arg |-> progress,
         ret |-> [newProgress EXCEPT !.mastery =
                     IF progress.mastery = "mastered" THEN "mastered"
                     ELSE calculateMastery(newProgress)]]

\* updateProgress with the two counters exchanged
updateProgress_CountsSwapped(progress, isCorrect) ==
    LET newProgress ==
            [progress EXCEPT !.attempts = progress.attempts + 1,
                             !.correctCount = progress.correctCount + (IF isCorrect THEN 0 ELSE 1),
                             !.incorrectCount = progress.incorrectCount + (IF isCorrect THEN 1 ELSE 0),
                             !.lastAttempted = now]
    IN  [arg |-> progress,
         ret |-> [newProgress EXCEPT !.mastery = calculateMastery(newProgress)]]

\* updateProgress starting the count anew on an incorrect answer
updateProgress_ForgetsOnMiss(progress, isCorrect) ==
    LET newProgress ==
            [progress EXCEPT !.attempts = IF isCorrect THEN progress.attempts + 1 ELSE 1,
                             !.correctCount = IF isCorrect THEN progress.correctCount + 1 ELSE 0,
                             !.incorrectCount = IF isCorrect THEN progress.incorrectCount ELSE 1,
                             !.lastAttempted = now]
    IN  [arg |-> progress,
         ret |-> [newProgress EXCEPT !.mastery = calculateMastery(newProgress)]]

\* arg/ret as for updateSession: newProgress is a fresh object
\* ({...progress}) and the mastery is assigned on newProgress.
updateProgress(progress, isCorrect) ==
    LET newProgress ==
            [progress EXCEPT !.attempts = progress.attempts + 1,
                             !.correctCount = progress.correctCount + (IF isCorrect THEN 1 ELSE 0),
                             !.incorrectCount = progress.incorrectCount + (IF isCorrect THEN 0 ELSE 1),
                             !.lastAttempted = now,
                             !.mastery = progress.mastery]
        classified == [newProgress EXCEPT !.mastery = calculateMastery(newProgress)]
    IN  [arg |-> progress, ret |-> classified]

\* progressMap.get(id) on new Map(progressList.map(p => [p.questionId, p])):
\* of several records with one id the Map keeps the last
progressMapGet(list, id) ==
    LET at == {i \in 1..Len(list) : list[i].questionId = id}
    IN  IF at = {} THEN Absent
        ELSE Supplied(list[CHOOSE i \in at : \A j \in at : j <= i])

\* the bucket taken from a fresh classification instead of the stored tag
masteryBucket_Recomputed(progress) == calculateMastery(progress)

\* switch (progress.mastery)
masteryBucket(progress) == progress.mastery

\* the entry written for a topic replacing the sums instead of adding to them
topicEntry_Overwrites(topic, current, progress) ==
    [topic |-> topic, correct |-> progress.correctCount, total |-> progress.attempts]

\* { correct: current.correct + progress.correctCount,
\*   total: current.total + progress.attempts }
topicEntry(topic, current, progress) ==
    [topic |-> topic,
     correct |-> current.correct + progress.correctCount,
     total |-> current.total + progress.attempts]

\* topicBreakdown.set(topic, entry) with current = topicBreakdown.get(topic)
\* || { correct: 0, total: 0 }; the Map is the sequence of its entries in
\* insertion order, and set() on a key it holds keeps the key's place
topicBreakdownAdd(topicBreakdown, topic, progress) ==
    LET at == {i \in 1..Len(topicBreakdown) : topicBreakdown[i].topic = topic}
    IN  IF at = {}
        THEN Append(topicBreakdown,
                    topicEntry(topic, [correct |-> 0, total |-> 0], progress))
        ELSE LET i == CHOOSE k \in at : TRUE
             IN  [topicBreakdown EXCEPT ![i] = topicEntry(topic, topicBreakdown[i], progress)]

\* the counters before allQuestions.forEach
statsStart ==
    [newCount |-> 0, learningCount |-> 0, masteredCount |-> 0,
     totalCorrect |-> 0, totalAttempts |-> 0, topicBreakdown |-> <<>>]

\* the loop body leaving a question without a record uncounted
statsStep_SkipsUnrecorded(acc, question, list) ==
    LET found == progressMapGet(list, question.id)
    IN  IF found = Absent
        THEN acc
        ELSE LET progress == found[1]
                 bucket == progress.mastery
             IN  CASE bucket = "new" -> [acc EXCEPT !.newCount = acc.newCount + 1]
                   [] bucket = "learning" ->
                          [acc EXCEPT !.learningCount = acc.learningCount + 1]
                   [] bucket = "mastered" ->
                          [acc EXCEPT !.masteredCount = acc.masteredCount + 1]
                   [] OTHER -> acc

\* the body of allQuestions.forEach for one question
statsStep(acc, question, list) ==
    LET found == progressMapGet(list, question.id)
    IN  IF found = Absent
        THEN [acc EXCEPT !.newCount = acc.newCount + 1]
        ELSE LET progress == found[1]
                 bucket == masteryBucket(progress)
                 counted ==
                     CASE bucket = "new" -> [acc EXCEPT !.newCount = acc.newCount + 1]
                       [] bucket = "learning" ->
                              [acc EXCEPT !.learningCount = acc.learningCount + 1]
                       [] bucket = "mastered" ->
                              [acc EXCEPT !.masteredCount = acc.masteredCount + 1]
                       [] OTHER -> acc
             IN  [counted EXCEPT
                     !.totalCorrect = acc.totalCorrect + progress.correctCount,
                     !.totalAttempts = acc.totalAttempts + progress.attempts,
                     !.topicBreakdown =
                         IF question.topic # ""
                         THEN topicBreakdownAdd(acc.topicBreakdown, question.topic, progress)
                         ELSE acc.topicBreakdown]

RECURSIVE statsLoop(_, _, _)
statsLoop(acc, allQuestions, list) ==
    IF allQuestions = <<>> THEN acc
    ELSE statsLoop(statsStep(acc, Head(allQuestions), list),
                   Tail(allQuestions), list)

\* totalAttempts > 0 ? totalCorrect / totalAttempts : 0
ratioOrZero(correct, total) == IF total > 0 THEN NumDiv(correct, total) ELSE Num(0)

RECURSIVE sumField(_, _)
sumField(list, field) ==
    IF list = <<>> THEN 0 ELSE Head(list)[field] + sumField(Tail(list), field)

\* calculateStats taking the accuracy totals from every record it was given
calculateStats_TotalsFromRecords(list, allQuestions) ==
    LET acc == statsLoop(statsStart, allQuestions, list)
    IN  [totalQuestions |-> Len(allQuestions),
         newQuestions |-> acc.newCount,
         learningQuestions |-> acc.learningCount,
         masteredQuestions |-> acc.masteredCount,
         overallAccuracy |-> ratioOrZero(sumField(list, "correctCount"),
                                         sumField(list, "attempts")),
         topicBreakdown |-> acc.topicBreakdown]

calculateStats(list, allQuestions) ==
    LET acc == statsLoop(statsStart, allQuestions, list)
    IN  [totalQuestions |-> Len(allQuestions),
         newQuestions |-> acc.newCount,
         learningQuestions |-> acc.learningCount,
         masteredQuestions |-> acc.masteredCount,
         overallAccuracy |-> ratioOrZero(acc.totalCorrect, acc.totalAttempts),
         topicBreakdown |-> acc.topicBreakdown]

\* getQuestionsNeedingReview keeping only questions that have a record
getQuestionsNeedingReview_OnlyRecorded(allQuestions, list) ==
    LET keep(q) == LET found == progressMapGet(list, q.id)
                   IN  found # Absent /\ found[1].mastery # "mastered"
    IN  SelectSeq(allQuestions, keep)

getQuestionsNeedingReview(allQuestions, list) ==
    LET keep(q) == LET found == progressMapGet(list, q.id)
                   IN  found = Absent \/ found[1].mastery # "mastered"
    IN  SelectSeq(allQuestions, keep)

\* .map(([topic, { correct, total }]) => ({ topic, accuracy, total }))
withAccuracy(entry) ==
    [topic |-> entry.topic,
     accuracy |-> ratioOrZero(entry.correct, entry.total),
     total |-> entry.total]

\* sort((a, b) => a.accuracy - b.accuracy), stable: insert x after the last
\* element whose accuracy is not greater
RECURSIVE insertByAccuracy(_, _)
insertByAccuracy(sorted, x) ==
    IF sorted = <<>> THEN <<x>>
    ELSE LET last == sorted[Len(sorted)]
         IN  IF NumGeq(x.accuracy, last.accuracy)
             THEN Append(sorted, x)
             ELSE Append(insertByAccuracy(SubSeq(sorted, 1, Len(sorted) - 1), x), last)

RECURSIVE sortByAccuracy(_)
sortByAccuracy(arr) ==
    IF arr = <<>> THEN <<>>
    ELSE insertByAccuracy(sortByAccuracy(SubSeq(arr, 1, Len(arr) - 1)), arr[Len(arr)])

\* limit: number = 3
DefaultLimit == 3

\* getWeakestTopics without the filter on total > 0
getWeakestTopics_KeepsUnattempted(stats, limit) ==
    LET mapped == [i \in 1..Len(stats.topicBreakdown) |->
                      withAccuracy(stats.topicBreakdown[i])]
        topics == sortByAccuracy(mapped)
        count == IF limit = Absent THEN DefaultLimit ELSE limit[1]
    IN  [i \in 1..Min(count, Len(topics)) |-> topics[i].topic]

getWeakestTopics(stats, limit) ==
    LET mapped == [i \in 1..Len(stats.topicBreakdown) |->
                      withAccuracy(stats.topicBreakdown[i])]
        attempted(t) == t.total > 0
        topics == sortByAccuracy(SelectSeq(mapped, attempted))
        count == IF limit = Absent THEN DefaultLimit ELSE limit[1]
    IN  [i \in 1..Min(count, Len(topics)) |-> topics[i].topic]

\* resetProgress keeping the mastery tag of the record it resets
resetProgress_KeepsMastery(progress) ==
    [arg |-> progress,
     ret |-> [createProgress(progress.questionId) EXCEPT !.mastery = progress.mastery]]

resetProgress(progress) ==
    [arg |-> progress, ret |-> createProgress(progress.questionId)]

resetAllProgress(list) ==
    [arg |-> list, ret |-> [i \in 1..Len(list) |-> createProgress(list[i].questionId)]]

(***************************************************************************)
(* The callers' steps                                                      *)
(***************************************************************************)

\* ---- shell/timer.ts ----
\* The operations work on the closure of one timer and on what it touches:
\*   timer      remaining and intervalId (with the duration of its config),
\*   intervals  the periodic callbacks the event loop has scheduled,
\*   events     the calls made to the timer and the calls it made to
\*              config.onTick and config.onComplete, in order.

\* intervalId = null
NoInterval == 0

\* let remaining = config.duration; let intervalId = null
createTimer(duration) ==
    [duration |-> duration, remaining |-> duration, intervalId |-> NoInterval]

\* config.onTick?.(remaining)
onTick(tm, remaining) ==
    [tm EXCEPT !.events = Append(@, [op |-> "onTick", value |-> remaining])]

\* config.onComplete?.()
onComplete(tm) ==
    [tm EXCEPT !.events = Append(@, [op |-> "onComplete", value |-> 0])]

\* intervalId = setInterval(tick, 1000): one more periodic callback, under an
\* id no scheduled callback has
setInterval(tm) ==
    LET id == CHOOSE i \in 1..(Cardinality(tm.intervals) + 1) :
                  /\ i \notin tm.intervals
                  /\ \A j \in 1..(i - 1) : j \in tm.intervals
    IN  [tm EXCEPT !.intervals = @ \cup {id}, !.timer.intervalId = id]

\* stop forgetting the interval without clearing it
stop_KeepsInterval(tm) ==
    IF tm.timer.intervalId # NoInterval
    THEN [tm EXCEPT !.timer.intervalId = NoInterval]
    ELSE tm

stop(tm) ==
    IF tm.timer.intervalId # NoInterval
    THEN [tm EXCEPT !.intervals = @ \ {tm.timer.intervalId},
                    !.timer.intervalId = NoInterval]
    ELSE tm

\* tick counting on after remaining has reached 0
tick_NeverCompletes(tm) ==
    LET counted == [tm EXCEPT !.timer.remaining = @ - 1]
    IN  onTick(counted, counted.timer.remaining)

tick(tm) ==
    LET counted == [tm EXCEPT !.timer.remaining = @ - 1]
        told == onTick(counted, counted.timer.remaining)
    IN  IF told.timer.remaining <= 0 THEN onComplete(stop(told)) ELSE told

\* start scheduling a callback whether or not one is scheduled
start_Unguarded(tm) == setInterval(tm)

start(tm) ==
    IF tm.timer.intervalId # NoInterval THEN tm ELSE setInterval(tm)

\* reset leaving remaining where the countdown had brought it
reset_KeepsRemaining(tm) ==
    LET stopped == stop(tm)
    IN  onTick(stopped, stopped.timer.duration)

reset(tm) ==
    LET stopped == stop(tm)
        restored == [stopped EXCEPT !.timer.remaining = stopped.timer.duration]
    IN  onTick(restored, restored.timer.remaining)

\* isRunning: () => intervalId !== null
isRunning(tm) == tm.timer.intervalId # NoInterval

\* one second of the event loop: every scheduled callback runs once, in the
\* order of the ids, unless a callback before it has cleared it
RECURSIVE runIntervals(_, _)
runIntervals(tm, pending) ==
    IF pending = {} THEN tm
    ELSE LET id == CHOOSE i \in pending : \A j \in pending : i <= j
         IN  runIntervals(IF id \in tm.intervals THEN tick(tm) ELSE tm,
                          pending \ {id})


\* ---- shell/storage.ts ----
\* A stored text is either a JSON text, held as the value it denotes, or a
\* text that is no JSON (the empty text among them). A JSON value carries its
\* type: an array its items, an object its fields, a string its characters.
\* A Date is its time value; JSON.stringify writes it as its ISO string and
\* new Date(string) reads that string back.

JsonText(value) == [kind |-> "json", value |-> value]
OtherText(chars) == [kind |-> "text", chars |-> chars]

JsonArray(items) == [type |-> "array", items |-> items]
JsonObject(fields) == [type |-> "object", fields |-> fields]
JsonNumber(n) == [type |-> "number", value |-> n]
JsonString(chars) == [type |-> "string", chars |-> chars]
JsonNull == [type |-> "null"]

\* Date.prototype.toJSON and new Date(isoString)
IsoString(date) == [iso |-> date]
InvalidDate == "Invalid Date"

\* JSON.stringify(progressList)
stringify(list) ==
    JsonText(JsonArray([i \in DOMAIN list |->
        JsonObject([list[i] EXCEPT !.lastAttempted = JsonString(IsoString(@))])]))

\* { success: true } and the two other shapes of a StorageResult
Success == [success |-> TRUE]
SuccessWith(data) == [success |-> TRUE, data |-> data]
Failure(error) == [success |-> FALSE, error |-> error]

\* saveProgress: setItem throws when the quota is exceeded, and the item
\* then stays as it was
saveProgress(stored, list, quotaExceeded) ==
    IF quotaExceeded
    THEN [stored |-> stored, ret |-> Failure("QuotaExceededError")]
    ELSE [stored |-> Supplied(stringify(list)), ret |-> Success]

\* new Date(p.lastAttempted) for an item p of the parsed array
reviveDate(p) ==
    IF p.type = "object" /\ "lastAttempted" \in DOMAIN p.fields
    THEN LET v == p.fields.lastAttempted
         IN  IF v.type = "string" /\ DOMAIN v.chars = {"iso"} THEN v.chars.iso
             ELSE IF v.type = "number" THEN v.value
             ELSE InvalidDate
    ELSE InvalidDate

\* ({ ...p, lastAttempted: new Date(p.lastAttempted) }): the spread of a
\* number has no property
reviveItem(p) ==
    IF p.type = "object"
    THEN [f \in DOMAIN p.fields \cup {"lastAttempted"} |->
             IF f = "lastAttempted" THEN reviveDate(p) ELSE p.fields[f]]
    ELSE [lastAttempted |-> reviveDate(p)]

\* loadProgress: !serialized holds for null and for the empty text;
\* JSON.parse throws on a text that is no JSON, parsed.map on a value that is
\* no array, p.lastAttempted on an item that is null
loadProgress(stored) ==
    IF stored = Absent THEN SuccessWith(<<>>)
    ELSE LET serialized == stored[1]
         IN  IF serialized.kind = "text"
             THEN IF serialized.chars = "" THEN SuccessWith(<<>>)
                  ELSE Failure("SyntaxError")
             ELSE LET parsed == serialized.value
                  IN  IF parsed.type # "array" THEN Failure("TypeError")
                      ELSE IF \E i \in DOMAIN parsed.items : parsed.items[i].type = "null"
                      THEN Failure("TypeError")
                      ELSE SuccessWith([i \in DOMAIN parsed.items |->
                                           reviveItem(parsed.items[i])])

\* clearProgress: localStorage.removeItem(STORAGE_KEY)
clearProgress(stored) == [stored |-> Absent, ret |-> Success]

Components ==
    {"session", "timed", "progress", "selection", "list", "score", "mastery",
     "stats", "topics", "timer", "partition", "shuffle",
     "storage", "shell"}

\* timeTaken as the callers pass it: 0 in quiz mode, 5 in the tests, the
\* whole allotted time on a timeout
TIMED_SECONDS_PER_QUESTION == 15
TIMED_QUESTION_COUNT == 10
TimeTakenInputs == {0, 5, TIMED_SECONDS_PER_QUESTION}

Idle == <<>>

\* the timed view's position before a run: currentQuestionIndex, and how many
\* of the run's answers so far were correct and given in AnswerSeconds
TimedIdle == [currentQuestionIndex |-> 0, quickCorrect |-> 0]

\* the measured time of an answer in a timed run, in seconds
AnswerSeconds == 5

\* the inputs of calculateScore: totalQuestions > 0 is its precondition
ScoreInputs ==
    {a \in [correctAnswers : 0..MaxTotal, totalQuestions : 1..MaxTotal,
            timeElapsed : 0..MaxElapsed, mode : QuizModes] :
        a.correctAnswers <= a.totalQuestions}

\* timed inputs whose elapsed time runs up to and past the point where the
\* per-question average is 20 s: every second for short quizzes, the seconds
\* around 20 * totalQuestions for the others
ElapsedInputs(totalQuestions) ==
    IF totalQuestions <= MaxSweep
    THEN 0..(20 * totalQuestions + MaxElapsed)
    ELSE (20 * totalQuestions - MaxElapsed)..(20 * totalQuestions + MaxElapsed)

TimedInputs ==
    UNION {{[correctAnswers |-> c, totalQuestions |-> t, timeElapsed |-> e,
             mode |-> "timed"] : c \in 0..t, e \in ElapsedInputs(t)} : t \in 1..MaxTotal}

\* the question lists a caller may hold, and the position and answer it asks about
QuestionLists ==
    UNION {[1..n -> {mockQuestions[i] : i \in 1..Len(mockQuestions)}] : n \in 0..MaxList}

ListInputs ==
    [questions : QuestionLists, currentIndex : 0..(MaxList + 1), answer : AnswerOptions]

\* the records given to calculateMastery; the stored tag is any level
MasteryInputs ==
    {p \in [questionId : {"q1"}, attempts : 0..MaxTotal, correctCount : 0..MaxTotal,
            incorrectCount : 0..MaxTotal, lastAttempted : {0}, mastery : MasteryLevels] :
        p.attempts = p.correctCount + p.incorrectCount}

RECURSIVE totalAttempts(_)
\* the ids of the records handed to the statistics: the catalog's and one
\* the catalog does not hold
StatsIds == <<"q1", "q2", "q3", "q4", "q9">>

\* a record as the shell stores it; the mastery tag is whatever was stored
StatsRecords(id) ==
    {[questionId |-> id, attempts |-> a, correctCount |-> c,
      incorrectCount |-> a - c, lastAttempted |-> 0, mastery |-> m] :
        a \in 0..MaxStatAttempts, c \in 0..MaxStatAttempts, m \in MasteryLevels}

\* a record of the progress-tracker tests
StatsFixture(id, attempts, correctCount, mastery) ==
    [questionId |-> id, attempts |-> attempts, correctCount |-> correctCount,
     incorrectCount |-> attempts - correctCount, lastAttempted |-> 0,
     mastery |-> mastery]

\* Array.from(userProgress.values()): records with distinct question ids
StatsInputs ==
    {l \in {<<>>}
           \cup UNION {{<<r>> : r \in StatsRecords(StatsIds[i])} : i \in DOMAIN StatsIds}
           \cup UNION {{<<r1, r2>> : r1 \in StatsRecords(StatsIds[p[1]]),
                                     r2 \in StatsRecords(StatsIds[p[2]])} :
                           p \in {q \in (DOMAIN StatsIds) \X (DOMAIN StatsIds) : q[1] < q[2]}} :
        \A i \in DOMAIN l : l[i].correctCount <= l[i].attempts}
    \cup {<<StatsFixture("q1", 1, 1, "new")>>,
          <<StatsFixture("q1", 5, 3, "learning")>>,
          <<StatsFixture("q1", 5, 5, "mastered")>>,
          <<StatsFixture("q1", 10, 8, "mastered")>>,
          <<StatsFixture("q1", 5, 4, "mastered"),
            StatsFixture("q3", 5, 3, "learning")>>,
          <<StatsFixture("q1", 5, 4, "mastered"),
            StatsFixture("q2", 2, 1, "new"),
            StatsFixture("q3", 5, 3, "learning")>>}

\* the arrays handed to the shuffle: question ids, repeated or not
ShuffleInputs == UNION {[1..n -> QuestionIds] : n \in 0..MaxShuffle}

\* the lists the shell saves
SavedRecords ==
    {[StatsFixture("q1", 5, 4, "mastered") EXCEPT !.lastAttempted = 1],
     StatsFixture("q1", 1, 1, "new"),
     StatsFixture("q2", 3, 1, "learning")}

SavedLists == UNION {[1..n -> SavedRecords] : n \in 0..MaxSaved}

\* texts put under the key by something else than saveProgress: no JSON, the
\* empty text, JSON that is no array, arrays whose items are no records
ForeignTexts ==
    {OtherText("invalid json"), OtherText(""),
     JsonText(JsonObject([questionId |-> JsonString("q1")])),
     JsonText(JsonNull), JsonText(JsonNumber(5)), JsonText(JsonString("q1")),
     JsonText(JsonArray(<<JsonNumber(1)>>)),
     JsonText(JsonArray(<<JsonNull>>)),
     JsonText(JsonArray(<<JsonObject([questionId |-> JsonString("q1")])>>))}

\* records that share a question id under different tags, and a record of a
\* question no catalog holds
PartitionRecords ==
    {StatsFixture("q1", 1, 1, m) : m \in MasteryLevels}
    \cup {StatsFixture("q2", 1, 0, "learning"), StatsFixture("q9", 1, 1, "mastered")}

\* any catalog and any list of such records
PartitionInputs ==
    [progressList : UNION {[1..n -> PartitionRecords] : n \in 0..MaxRecords},
     allQuestions : QuestionLists]

\* the topics of a breakdown, in the order the Map received them
TopicNames == <<"wind", "solar", "energy", "hydro">>

\* a Map of topic sums: the first n topics, each with its sums
TopicSums ==
    {p \in (0..MaxStatAttempts) \X (0..MaxStatAttempts) : p[1] <= p[2]}

TopicBreakdowns == UNION {[1..n -> TopicSums] : n \in 0..Len(TopicNames)}

WeakestInputs ==
    {[stats |-> [topicBreakdown |->
                    [i \in DOMAIN b |->
                        [topic |-> TopicNames[i], correct |-> b[i][1], total |-> b[i][2]]]],
      limit |-> l] :
        b \in TopicBreakdowns,
        l \in {Absent} \cup {Supplied(n) : n \in 0..MaxLimit}}

totalAttempts(list) ==
    IF list = <<>> THEN 0 ELSE Head(list).attempts + totalAttempts(Tail(list))

\* ---- shell/main.ts ----
\* The handlers work on the module state of main.ts and on what they touch
\* in the page and in the event loop, held here as one record a:
\*   view                  the view the navigation made active
\*   currentQuestions, currentQuestionIndex, currentSession, isAnswered,
\*   flashcardIndex        the module variables of those names
\*   userProgress          the Map's values, in insertion order
\*   timedTimer            whether timedTimer holds a timer (not null)
\*   timer, intervals      the timer timedTimer holds, and the event loop's
\*                         periodic callbacks (shell/timer.ts)
\*   due                   the time steps until each periodic callback runs
\*   timeouts              the time steps until each pending setTimeout
\*                         callback runs, oldest first
\*   startButtonDisabled   timedStartButton.disabled
\*   timedCard             what the timed view shows: the start text, a
\*                         question with enabled options, a question with
\*                         disabled options, or the completion screen
\*   quizCard              what the quiz view shows: a question or the
\*                         completion screen
\*   localStorage          the item saveProgress writes
\*   navigations           the clicks on navigation buttons so far
FEEDBACK_DELAY_MS == 1500
INTERVAL_MS == 1000

RECURSIVE Gcd(_, _)
Gcd(x, y) == IF y = 0 THEN x ELSE Gcd(y, x % y)

\* time passes in steps of the longest span both delays are multiples of
TimeStep == Gcd(FEEDBACK_DELAY_MS, INTERVAL_MS)
FeedbackSteps == FEEDBACK_DELAY_MS \div TimeStep
IntervalSteps == INTERVAL_MS \div TimeStep

Views == {"quiz", "flashcard", "timed", "progress"}

\* { mode, gradeLevel: '6-8', questionCount } over questionsData
shellSelect(questionCount, ch) ==
    selectQuestions(mockQuestions,
                    [gradeLevel |-> "6-8", topic |-> "", questionCount |-> questionCount],
                    ch).ret

\* the random choices of that selection
ShellChoices ==
    RandomChoices(filteredLength(mockQuestions,
                                 [gradeLevel |-> "6-8", topic |-> "",
                                  questionCount |-> Absent]))

\* the closure of timedTimer, and the shell after an operation on it
timerOf(a) == [timer |-> a.timer, intervals |-> a.intervals, events |-> <<>>]

withTimer(a, tm) ==
    [a EXCEPT !.timer = tm.timer,
              !.intervals = tm.intervals,
              !.due = [id \in tm.intervals |->
                          IF id \in DOMAIN a.due THEN a.due[id] ELSE IntervalSteps]]

\* if (timedTimer) timedTimer.stop()
stopTimedTimer(a) == IF a.timedTimer THEN withTimer(a, stop(timerOf(a))) ELSE a

\* currentQuestions[currentQuestionIndex] is undefined
noQuestion(a) == a.currentQuestionIndex + 1 > Len(a.currentQuestions)

\* userProgress.set(question.id, updatedProgress)
userProgressSet(list, updated) ==
    IF \E i \in 1..Len(list) : list[i].questionId = updated.questionId
    THEN [i \in 1..Len(list) |->
             IF list[i].questionId = updated.questionId THEN updated ELSE list[i]]
    ELSE Append(list, updated)

\* userProgress.get(id) || createProgress(id); updateProgress; set;
\* saveUserProgress (the storage takes the write)
trackProgress(a, questionId, isCorrect) ==
    LET found == progressMapGet(a.userProgress, questionId)
        progress == IF found # Absent THEN found[1] ELSE createProgress(questionId)
        list == userProgressSet(a.userProgress, updateProgress(progress, isCorrect).ret)
    IN  [a EXCEPT !.userProgress = list,
                  !.localStorage = saveProgress(a.localStorage, list, FALSE).stored]

\* currentSession = updateSession(currentSession, isCorrect, timeTaken) and
\* the progress of the question at currentQuestionIndex
recordOutcome(a, isCorrect, timeTaken) ==
    LET question == a.currentQuestions[a.currentQuestionIndex + 1]
        updated == [a EXCEPT !.currentSession = updateSession(@, isCorrect, timeTaken).ret]
    IN  trackProgress(updated, question.id, isCorrect)

\* setTimeout(() => { currentQuestionIndex++; renderTimedCurrentQuestion() },
\*            FEEDBACK_DELAY_MS)
scheduleAdvance(a) == [a EXCEPT !.timeouts = Append(@, FeedbackSteps)]

showTimedQuizComplete(a) ==
    LET stopped == stopTimedTimer(a)
    IN  [stopped EXCEPT !.timedTimer = FALSE,
                        !.timedCard = "complete",
                        !.startButtonDisabled = FALSE]

renderTimedCurrentQuestion(a) ==
    IF noQuestion(a) THEN showTimedQuizComplete(a)
    ELSE LET stopped == stopTimedTimer(a)
             created == [stopped EXCEPT !.timedCard = "question",
                                        !.isAnswered = FALSE,
                                        !.timer = createTimer(TIMED_SECONDS_PER_QUESTION),
                                        !.timedTimer = TRUE]
         IN  withTimer(created, start(timerOf(created)))

\* the callback of the auto-advance
autoAdvance(a) ==
    renderTimedCurrentQuestion([a EXCEPT !.currentQuestionIndex = @ + 1])

startTimedMode(a) ==
    LET stopped == stopTimedTimer(a)
    IN  [stopped EXCEPT !.timedTimer = FALSE,
                        !.timedCard = "start",
                        !.startButtonDisabled = FALSE]

handleTimedStart(a, ch) ==
    renderTimedCurrentQuestion(
        [a EXCEPT !.currentQuestions = shellSelect(Supplied(TIMED_QUESTION_COUNT), ch),
                  !.currentQuestionIndex = 0,
                  !.currentSession = createSession("timed"),
                  !.isAnswered = FALSE,
                  !.startButtonDisabled = TRUE])

\* Math.round((Date.now() - timedQuestionStartTime) / 1000): the clock was
\* read when the countdown of the question was started, so the difference is
\* the time that countdown has run, its whole seconds and the steps since
sinceRender(a) ==
    INTERVAL_MS * (a.timer.duration - a.timer.remaining)
        + TimeStep * (IF a.timer.intervalId \in DOMAIN a.due
                      THEN IntervalSteps - a.due[a.timer.intervalId] ELSE 0)

timeTakenOf(a) == (2 * sinceRender(a) + 1000) \div (2 * 1000)

\* handleTimedTimeout recording the timeout with no time taken
handleTimedTimeout_NoTimeTaken(a) ==
    IF a.isAnswered THEN a
    ELSE LET marked == [a EXCEPT !.isAnswered = TRUE,
                                 !.timedCard = IF @ = "question" THEN "feedback" ELSE @]
         IN  IF noQuestion(a) THEN marked
             ELSE scheduleAdvance(recordOutcome(marked, FALSE, 0))

\* a TypeError ends the handler where question.correctAnswer is read of no
\* question
handleTimedAnswerSelected(a, answer) ==
    IF a.isAnswered THEN a
    ELSE LET marked == [stopTimedTimer(a) EXCEPT !.isAnswered = TRUE]
         IN  IF noQuestion(a) THEN marked
             ELSE LET question == a.currentQuestions[a.currentQuestionIndex + 1]
                      shownAnswer == [marked EXCEPT !.timedCard = "feedback"]
                  IN  scheduleAdvance(
                          recordOutcome(shownAnswer, checkAnswer(question, answer),
                                        timeTakenOf(a)))

handleTimedTimeout(a) ==
    IF a.isAnswered THEN a
    ELSE LET marked == [a EXCEPT !.isAnswered = TRUE,
                                 !.timedCard = IF @ = "question" THEN "feedback" ELSE @]
         IN  IF noQuestion(a) THEN marked
             ELSE scheduleAdvance(
                      recordOutcome(marked, FALSE, TIMED_SECONDS_PER_QUESTION))

\* the periodic callback id of timedTimer: tick, and config.onComplete when
\* the countdown has ended (config.onTick changes the display only); the
\* callback is due again after the interval unless it was cleared
intervalCallback(a, id) ==
    LET after == tick(timerOf(a))
        counted == withTimer(a, after)
        armed == [counted EXCEPT !.due = [i \in DOMAIN @ |->
                                             IF i = id THEN IntervalSteps ELSE @[i]]]
    IN  IF after.events # <<>> /\ after.events[Len(after.events)].op = "onComplete"
        THEN handleTimedTimeout(armed)
        ELSE armed

showQuizComplete(a) == [a EXCEPT !.quizCard = "complete"]

renderCurrentQuestion(a) ==
    IF noQuestion(a) THEN showQuizComplete(a)
    ELSE [a EXCEPT !.quizCard = "question", !.isAnswered = FALSE]

startQuizMode(a, ch) ==
    renderCurrentQuestion(
        [a EXCEPT !.currentQuestions = shellSelect(Supplied(10), ch),
                  !.currentQuestionIndex = 0,
                  !.currentSession = createSession("quiz"),
                  !.isAnswered = FALSE])

\* checkAnswer(question, answer) throws a TypeError on no question
handleAnswerSelected(a, answer) ==
    IF a.isAnswered \/ noQuestion(a) THEN a
    ELSE LET question == a.currentQuestions[a.currentQuestionIndex + 1]
         IN  recordOutcome([a EXCEPT !.isAnswered = TRUE],
                           checkAnswer(question, answer), 0)

handleNextQuestion(a) ==
    IF ~a.isAnswered THEN a
    ELSE renderCurrentQuestion([a EXCEPT !.currentQuestionIndex = @ + 1])

startFlashcardMode(a, ch) ==
    [a EXCEPT !.currentQuestions = shellSelect(Absent, ch),
              !.flashcardIndex = 0]

\* startProgressView renders the statistics and changes nothing
startProgressView(a) == a

\* the click handler of a navigation button
navigate(a, mode, ch) ==
    LET shownView == [a EXCEPT !.view = mode, !.navigations = @ + 1]
    IN  CASE mode = "quiz" -> startQuizMode(shownView, ch)
          [] mode = "flashcard" -> startFlashcardMode(shownView, ch)
          [] mode = "timed" -> startTimedMode(shownView)
          [] OTHER -> startProgressView(shownView)

\* the module state at load, before init()
ShellLoaded ==
    [view |-> "quiz",
     currentQuestions |-> <<>>,
     currentQuestionIndex |-> 0,
     currentSession |-> createSession("quiz"),
     userProgress |-> <<>>,
     isAnswered |-> FALSE,
     flashcardIndex |-> 0,
     timedTimer |-> FALSE,
     timer |-> createTimer(TIMED_SECONDS_PER_QUESTION),
     intervals |-> {},
     due |-> [id \in {} |-> IntervalSteps],
     timeouts |-> <<>>,
     startButtonDisabled |-> FALSE,
     timedCard |-> "start",
     quizCard |-> "question",
     localStorage |-> Absent,
     navigations |-> 0]

\* init(): nothing stored to load; startQuizMode()
ShellStarts == {startQuizMode(ShellLoaded, ch) : ch \in ShellChoices}

\* the part of the shell's state held in the variable shell
ShellFields ==
    {"view", "currentQuestionIndex", "isAnswered", "flashcardIndex", "timedTimer",
     "due", "timeouts", "startButtonDisabled", "timedCard", "quizCard",
     "navigations"}

shellOf(a) == [f \in ShellFields |-> a[f]]

Init ==
    /\ focus \in Components
    /\ args \in CASE focus = "score" -> ScoreInputs \cup TimedInputs
                 [] focus = "mastery" -> MasteryInputs
                 [] focus = "timed" -> {TimedIdle}
                 [] focus = "list" -> ListInputs
                 [] focus = "stats" -> StatsInputs
                 [] focus = "topics" -> WeakestInputs
                 [] focus = "partition" -> PartitionInputs
                 [] focus = "shuffle" -> ShuffleInputs
                 [] OTHER -> {Idle}
    /\ now = 0
    /\ session = createSession("quiz")
    /\ progressList = <<>>
    /\ \E loaded \in IF focus = "shell" THEN ShellStarts ELSE {ShellLoaded} :
          /\ shell = shellOf(loaded)
          /\ currentQuestions = IF focus = "shell" THEN loaded.currentQuestions
                                ELSE mockQuestions
    /\ timer \in {createTimer(d) :
                     d \in IF focus = "timer" THEN 1..MaxDuration
                           ELSE {TIMED_SECONDS_PER_QUESTION}}
    /\ intervals = {}
    /\ events = <<>>
    /\ localStorage = Absent
    /\ lastOp = [op |-> "init"]
    /\ argBefore = Idle
    /\ argAfter = Idle
    /\ result = Idle

\* time passes
Tick ==
    /\ focus \in {"session", "progress"}
    /\ now < MaxClock
    /\ now' = now + 1
    /\ lastOp' = [op |-> "tick"]
    /\ argBefore' = Idle /\ argAfter' = Idle /\ result' = Idle
    /\ UNCHANGED <<shell, localStorage, timer, intervals, events, focus, session, progressList, currentQuestions, args>>

CreateSession(mode) ==
    /\ focus = "session"
    /\ session' = createSession(mode)
    /\ lastOp' = [op |-> "createSession", mode |-> mode]
    /\ argBefore' = Idle /\ argAfter' = Idle
    /\ result' = session'
    /\ UNCHANGED <<shell, localStorage, timer, intervals, events, focus, now, progressList, currentQuestions, args>>

UpdateSession(isCorrect, timeTaken) ==
    /\ focus = "session"
    /\ session.questionsAnswered < MaxAnswered
    /\ LET call == updateSession(session, isCorrect, timeTaken)
       IN  /\ session' = call.ret
           /\ argBefore' = session
           /\ argAfter' = call.arg
           /\ result' = call.ret
    /\ lastOp' = [op |-> "updateSession", isCorrect |-> isCorrect, timeTaken |-> timeTaken]
    /\ UNCHANGED <<shell, localStorage, timer, intervals, events, focus, now, progressList, currentQuestions, args>>

\* handleTimedStart: a new 'timed' session at question 0; the start button is
\* disabled while a run is in progress
TimedStart ==
    /\ focus = "timed"
    /\ session.mode # "timed" \/ args.currentQuestionIndex >= TIMED_QUESTION_COUNT
    /\ session' = createSession("timed")
    /\ args' = TimedIdle
    /\ lastOp' = [op |-> "createSession", mode |-> "timed"]
    /\ argBefore' = Idle /\ argAfter' = Idle
    /\ result' = session'
    /\ UNCHANGED <<shell, localStorage, timer, intervals, events, focus, now, progressList, currentQuestions>>

\* one question of a timed run: the session is updated and the view advances
TimedStep(isCorrect, timeTaken) ==
    /\ focus = "timed"
    /\ session.mode = "timed"
    /\ args.currentQuestionIndex < TIMED_QUESTION_COUNT
    /\ LET call == updateSession(session, isCorrect, timeTaken)
       IN  /\ session' = call.ret
           /\ argBefore' = session
           /\ argAfter' = call.arg
           /\ result' = call.ret
    /\ args' = [currentQuestionIndex |-> args.currentQuestionIndex + 1,
                quickCorrect |-> args.quickCorrect +
                    (IF isCorrect /\ timeTaken = AnswerSeconds THEN 1 ELSE 0)]
    /\ lastOp' = [op |-> "updateSession", isCorrect |-> isCorrect, timeTaken |-> timeTaken]
    /\ UNCHANGED <<shell, localStorage, timer, intervals, events, focus, now, progressList, currentQuestions>>

\* handleTimedAnswerSelected: an answer given after AnswerSeconds
TimedAnswerSelected(isCorrect) == TimedStep(isCorrect, AnswerSeconds)

\* handleTimedTimeout: no answer within TIMED_SECONDS_PER_QUESTION
TimedTimeout == TimedStep(FALSE, TIMED_SECONDS_PER_QUESTION)

\* a caller's first attempt at a question: userProgress.get(id) || createProgress(id)
CreateProgress(questionId) ==
    /\ focus = "progress"
    /\ \A i \in 1..Len(progressList) : progressList[i].questionId # questionId
    /\ progressList' = Append(progressList, createProgress(questionId))
    /\ lastOp' = [op |-> "createProgress", questionId |-> questionId]
    /\ argBefore' = Idle /\ argAfter' = Idle
    /\ result' = createProgress(questionId)
    /\ UNCHANGED <<shell, localStorage, timer, intervals, events, focus, now, session, currentQuestions, args>>

UpdateProgress(i, isCorrect) ==
    /\ focus = "progress"
    /\ i \in 1..Len(progressList)
    /\ totalAttempts(progressList) < MaxAttempts
    /\ LET call == updateProgress(progressList[i], isCorrect)
       IN  /\ progressList' = [progressList EXCEPT ![i] = call.ret]
           /\ argBefore' = progressList[i]
           /\ argAfter' = call.arg
           /\ result' = call.ret
    /\ lastOp' = [op |-> "updateProgress", index |-> i, isCorrect |-> isCorrect]
    /\ UNCHANGED <<shell, localStorage, timer, intervals, events, focus, now, session, currentQuestions, args>>

ResetProgress(i) ==
    /\ focus = "progress"
    /\ i \in 1..Len(progressList)
    /\ LET call == resetProgress(progressList[i])
       IN  /\ progressList' = [progressList EXCEPT ![i] = call.ret]
           /\ argBefore' = progressList[i]
           /\ argAfter' = call.arg
           /\ result' = call.ret
    /\ lastOp' = [op |-> "resetProgress", index |-> i]
    /\ UNCHANGED <<shell, localStorage, timer, intervals, events, focus, now, session, currentQuestions, args>>

ResetAllProgress ==
    /\ focus = "progress"
    /\ progressList # <<>>
    /\ LET call == resetAllProgress(progressList)
       IN  /\ progressList' = call.ret
           /\ argBefore' = progressList
           /\ argAfter' = call.arg
           /\ result' = call.ret
    /\ lastOp' = [op |-> "resetAllProgress"]
    /\ UNCHANGED <<shell, localStorage, timer, intervals, events, focus, now, session, currentQuestions, args>>

\* currentQuestions = selectQuestions(questionsData, config)
SelectQuestions(config, ch) ==
    /\ focus = "selection"
    /\ LET call == selectQuestions(mockQuestions, config, ch)
       IN  /\ currentQuestions' = call.ret
           /\ argBefore' = mockQuestions
           /\ argAfter' = call.arg
           /\ result' = call.ret
    /\ lastOp' = [op |-> "selectQuestions", config |-> config, ch |-> ch]
    /\ UNCHANGED <<shell, localStorage, timer, intervals, events, focus, now, session, progressList, args>>

SortByMasteryPriority(progressMap) ==
    /\ focus = "selection"
    /\ LET call == sortByMasteryPriority(currentQuestions, progressMap)
       IN  /\ currentQuestions' = call.ret
           /\ argBefore' = currentQuestions
           /\ argAfter' = call.arg
           /\ result' = call.ret
    /\ lastOp' = [op |-> "sortByMasteryPriority", progressMap |-> progressMap]
    /\ UNCHANGED <<shell, localStorage, timer, intervals, events, focus, now, session, progressList, args>>

\* the caller checks an answer to the question at its position
CheckAnswer ==
    /\ focus = "list" /\ lastOp.op = "init"
    /\ args.currentIndex < Len(args.questions)
    /\ LET question == args.questions[args.currentIndex + 1]
       IN  /\ result' = checkAnswer(question, args.answer)
           /\ lastOp' = [op |-> "checkAnswer", question |-> question]
    /\ argBefore' = Idle /\ argAfter' = Idle
    /\ UNCHANGED <<shell, localStorage, timer, intervals, events, focus, now, session, progressList, currentQuestions, args>>

GetNextQuestion ==
    /\ focus = "list" /\ lastOp.op = "init"
    /\ result' = getNextQuestion(args.questions, args.currentIndex)
    /\ lastOp' = [op |-> "getNextQuestion"]
    /\ argBefore' = Idle /\ argAfter' = Idle
    /\ UNCHANGED <<shell, localStorage, timer, intervals, events, focus, now, session, progressList, currentQuestions, args>>

IsQuizComplete ==
    /\ focus = "list" /\ lastOp.op = "init"
    /\ result' = isQuizComplete(args.currentIndex, Len(args.questions))
    /\ lastOp' = [op |-> "isQuizComplete"]
    /\ argBefore' = Idle /\ argAfter' = Idle
    /\ UNCHANGED <<shell, localStorage, timer, intervals, events, focus, now, session, progressList, currentQuestions, args>>

GetTopics ==
    /\ focus = "list" /\ lastOp.op = "init"
    /\ result' = getTopics(args.questions)
    /\ lastOp' = [op |-> "getTopics"]
    /\ argBefore' = Idle /\ argAfter' = Idle
    /\ UNCHANGED <<shell, localStorage, timer, intervals, events, focus, now, session, progressList, currentQuestions, args>>

\* the caller scores the inputs it holds
CalculateScore ==
    /\ focus = "score"
    /\ lastOp.op = "init"
    /\ result' = calculateScore(args.correctAnswers, args.totalQuestions,
                                args.timeElapsed, args.mode)
    /\ lastOp' = [op |-> "calculateScore"]
    /\ argBefore' = Idle /\ argAfter' = Idle
    /\ UNCHANGED <<shell, localStorage, timer, intervals, events, focus, now, session, progressList, currentQuestions, args>>

\* the caller classifies the record it holds
CalculateMastery ==
    /\ focus = "mastery"
    /\ lastOp.op = "init"
    /\ result' = calculateMastery(args)
    /\ lastOp' = [op |-> "calculateMastery"]
    /\ argBefore' = Idle /\ argAfter' = Idle
    /\ UNCHANGED <<shell, localStorage, timer, intervals, events, focus, now, session, progressList, currentQuestions, args>>

\* stats = calculateStats(Array.from(userProgress.values()), questionsData)
CalculateStats ==
    /\ focus = "stats"
    /\ lastOp.op = "init"
    /\ result' = calculateStats(args, mockQuestions)
    /\ lastOp' = [op |-> "calculateStats"]
    /\ argBefore' = Idle /\ argAfter' = Idle
    /\ UNCHANGED <<shell, localStorage, timer, intervals, events, focus, now, session, progressList, currentQuestions, args>>

\* shuffled = shuffleArray(filtered) with the random choices ch
ShuffleArray(ch) ==
    /\ focus = "shuffle"
    /\ lastOp.op = "init"
    /\ LET call == shuffleArray(args, ch)
       IN  /\ argBefore' = args
           /\ argAfter' = call.arg
           /\ result' = call.ret
    /\ lastOp' = [op |-> "shuffleArray", ch |-> ch]
    /\ UNCHANGED <<shell, localStorage, timer, intervals, events, focus, now, session, progressList, currentQuestions, args>>

\* an action of the storage wrapper: what is stored, what was returned
StorageStep(op, stored, returned) ==
    /\ focus = "storage"
    /\ localStorage' = stored
    /\ argBefore' = localStorage
    /\ argAfter' = Idle
    /\ result' = returned
    /\ lastOp' = op
    /\ UNCHANGED <<shell, timer, intervals, events, focus, now, session,
                   progressList, currentQuestions, args>>

SaveProgress(list, quotaExceeded) ==
    LET call == saveProgress(localStorage, list, quotaExceeded)
    IN  StorageStep([op |-> "saveProgress", list |-> list,
                     quotaExceeded |-> quotaExceeded],
                    call.stored, call.ret)

\* the load remembers the list of a successful save it follows directly
LoadProgress ==
    StorageStep([op |-> "loadProgress",
                 saved |-> IF lastOp.op = "saveProgress" /\ result.success
                           THEN Supplied(lastOp.list) ELSE Absent],
                localStorage, loadProgress(localStorage))

ClearProgress ==
    LET call == clearProgress(localStorage)
    IN  StorageStep([op |-> "clearProgress"], call.stored, call.ret)

\* localStorage.setItem('quizwind_progress', text) by another writer
SetItem(text) ==
    StorageStep([op |-> "setItem"], Supplied(text), Idle)

\* calculateStats over any catalog and any list of records
CalculateStatsOfCatalog ==
    /\ focus = "partition"
    /\ lastOp.op = "init"
    /\ result' = calculateStats(args.progressList, args.allQuestions)
    /\ lastOp' = [op |-> "calculateStats"]
    /\ argBefore' = Idle /\ argAfter' = Idle
    /\ UNCHANGED <<shell, localStorage, timer, intervals, events, focus, now, session, progressList, currentQuestions, args>>

GetQuestionsNeedingReview ==
    /\ focus = "stats"
    /\ lastOp.op = "init"
    /\ result' = getQuestionsNeedingReview(mockQuestions, args)
    /\ lastOp' = [op |-> "getQuestionsNeedingReview"]
    /\ argBefore' = Idle /\ argAfter' = Idle
    /\ UNCHANGED <<shell, localStorage, timer, intervals, events, focus, now, session, progressList, currentQuestions, args>>

GetWeakestTopics ==
    /\ focus = "topics"
    /\ lastOp.op = "init"
    /\ result' = getWeakestTopics(args.stats, args.limit)
    /\ lastOp' = [op |-> "getWeakestTopics"]
    /\ argBefore' = Idle /\ argAfter' = Idle
    /\ UNCHANGED <<shell, localStorage, timer, intervals, events, focus, now, session, progressList, currentQuestions, args>>

\* the timer with what it touches, and the same put back into the state
TimerState == [timer |-> timer, intervals |-> intervals, events |-> events]

Called(op) ==
    [TimerState EXCEPT !.events = Append(@, [op |-> op, value |-> 0])]

TimerStep(op, after, returned) ==
    /\ timer' = after.timer
    /\ intervals' = after.intervals
    /\ events' = after.events
    /\ argBefore' = TimerState
    /\ argAfter' = Idle
    /\ result' = returned
    /\ lastOp' = [op |-> op]
    /\ UNCHANGED <<shell, localStorage, focus, now, session, progressList, currentQuestions, args>>

TimerStart ==
    /\ focus = "timer"
    /\ Len(events) < MaxEvents
    /\ TimerStep("start", start(Called("start")), Idle)

TimerStop ==
    /\ focus = "timer"
    /\ Len(events) < MaxEvents
    /\ TimerStep("stop", stop(Called("stop")), Idle)

TimerReset ==
    /\ focus = "timer"
    /\ Len(events) + 1 < MaxEvents
    /\ TimerStep("reset", reset(Called("reset")), Idle)

TimerIsRunning ==
    /\ focus = "timer"
    /\ TimerStep("isRunning", TimerState, Supplied(isRunning(TimerState)))

\* vi.advanceTimersByTime(1000)
SecondElapses ==
    /\ focus = "timer"
    /\ Len(events) + 2 * Cardinality(intervals) <= MaxEvents
    /\ TimerStep("second", runIntervals(TimerState, intervals), Idle)

\* ---- the shell: clicks, callbacks and the passing of time ----
ShellState ==
    [view |-> shell.view,
     currentQuestions |-> currentQuestions,
     currentQuestionIndex |-> shell.currentQuestionIndex,
     currentSession |-> session,
     userProgress |-> progressList,
     isAnswered |-> shell.isAnswered,
     flashcardIndex |-> shell.flashcardIndex,
     timedTimer |-> shell.timedTimer,
     timer |-> timer,
     intervals |-> intervals,
     due |-> shell.due,
     timeouts |-> shell.timeouts,
     startButtonDisabled |-> shell.startButtonDisabled,
     timedCard |-> shell.timedCard,
     quizCard |-> shell.quizCard,
     localStorage |-> localStorage,
     navigations |-> shell.navigations]

\* the user clicks while no countdown runs or within MaxWait seconds of its
\* start, and otherwise lets it run out
UserActs == intervals = {} \/ timer.duration - timer.remaining <= MaxWait

ShellStep(after) ==
    /\ focus = "shell"
    /\ shell' = shellOf(after)
    /\ currentQuestions' = after.currentQuestions
    /\ session' = after.currentSession
    /\ progressList' = after.userProgress
    /\ timer' = after.timer
    /\ intervals' = after.intervals
    /\ localStorage' = after.localStorage
    /\ lastOp' = [op |-> "shell"]
    /\ argBefore' = Idle /\ argAfter' = Idle /\ result' = Idle
    /\ UNCHANGED <<events, focus, now, args>>

\* a click on the navigation button of a mode
Navigate(mode, ch) ==
    /\ focus = "shell"
    /\ UserActs
    /\ shell.navigations < MaxNavigations
    /\ ShellStep(navigate(ShellState, mode, ch))

\* a click on the start button of the timed view
ClickTimedStart(ch) ==
    /\ focus = "shell"
    /\ UserActs
    /\ shell.view = "timed"
    /\ ~shell.startButtonDisabled
    /\ totalAttempts(progressList) < MaxRecorded
    /\ ShellStep(handleTimedStart(ShellState, ch))

\* a click on an enabled option button of the timed view
ClickTimedOption(answer) ==
    /\ focus = "shell"
    /\ UserActs
    /\ totalAttempts(progressList) < MaxRecorded
    /\ shell.view = "timed"
    /\ shell.timedCard = "question"
    /\ ShellStep(handleTimedAnswerSelected(ShellState, answer))

\* a click on an option of the question the quiz view shows
ClickOption(answer) ==
    /\ focus = "shell"
    /\ UserActs
    /\ totalAttempts(progressList) < MaxRecorded
    /\ shell.view = "quiz"
    /\ shell.quizCard = "question"
    /\ ShellStep(handleAnswerSelected(ShellState, answer))

\* a click on the Next button under a question of the quiz view
ClickNext ==
    /\ focus = "shell"
    /\ UserActs
    /\ shell.view = "quiz"
    /\ shell.quizCard = "question"
    /\ ShellStep(handleNextQuestion(ShellState))

\* a click on the same button under the completion screen: nextButton.onclick
ClickStartNewQuiz(ch) ==
    /\ focus = "shell"
    /\ UserActs
    /\ shell.view = "quiz"
    /\ shell.quizCard = "complete"
    /\ totalAttempts(progressList) <= MaxRecorded
    /\ ShellStep(startQuizMode(ShellState, ch))

\* the oldest pending timeout is due: the event loop runs its callback
TimeoutFires ==
    /\ focus = "shell"
    /\ shell.timeouts # <<>>
    /\ Head(shell.timeouts) = 0
    /\ ShellStep(autoAdvance([ShellState EXCEPT !.timeouts = Tail(@)]))

\* a periodic callback is due: the event loop runs it
IntervalFires(id) ==
    /\ focus = "shell"
    /\ id \in intervals
    /\ shell.due[id] = 0
    /\ ShellStep(intervalCallback(ShellState, id))

\* one time step passes with no callback due
TimePasses ==
    /\ focus = "shell"
    /\ intervals # {} \/ shell.timeouts # <<>>
    /\ \A id \in intervals : shell.due[id] > 0
    /\ \A i \in 1..Len(shell.timeouts) : shell.timeouts[i] > 0
    /\ ShellStep([ShellState EXCEPT
                     !.due = [id \in DOMAIN @ |-> @[id] - 1],
                     !.timeouts = [i \in 1..Len(@) |-> @[i] - 1]])

Configs ==
    [gradeLevel : GradeLevelFilters, topic : TopicFilters,
     questionCount : {Absent} \cup {Supplied(n) : n \in 0..MaxCount}]

ProgressMaps ==
    UNION {[ids -> MasteryLevels] : ids \in SUBSET {"q1", "q2", "q3"}}

NextSession ==
    \/ Tick
    \/ \E mode \in QuizModes : CreateSession(mode)
    \/ \E isCorrect \in BOOLEAN, timeTaken \in TimeTakenInputs :
          UpdateSession(isCorrect, timeTaken)

NextTimed ==
    \/ TimedStart
    \/ \E isCorrect \in BOOLEAN : TimedAnswerSelected(isCorrect)
    \/ TimedTimeout

NextProgress ==
    \/ Tick
    \/ \E questionId \in {"q1", "q2"} : CreateProgress(questionId)
    \/ \E i \in 1..2, isCorrect \in BOOLEAN : UpdateProgress(i, isCorrect)
    \/ \E i \in 1..2 : ResetProgress(i)
    \/ ResetAllProgress

NextSelection ==
    \/ \E config \in Configs :
          \E ch \in RandomChoices(filteredLength(mockQuestions, config)) :
             SelectQuestions(config, ch)
    \/ \E progressMap \in ProgressMaps : SortByMasteryPriority(progressMap)

NextList == CheckAnswer \/ GetNextQuestion \/ IsQuizComplete \/ GetTopics

NextScore == CalculateScore

NextMastery == CalculateMastery

NextStats == CalculateStats \/ GetQuestionsNeedingReview

NextTopics == GetWeakestTopics

NextPartition == CalculateStatsOfCatalog

NextStorage ==
    \/ \E list \in SavedLists, quotaExceeded \in BOOLEAN : SaveProgress(list, quotaExceeded)
    \/ LoadProgress
    \/ ClearProgress
    \/ \E text \in ForeignTexts : SetItem(text)

NextShuffle == \E ch \in RandomChoices(Len(args)) : ShuffleArray(ch)

NextShell ==
    \/ \E mode \in Views, ch \in ShellChoices : Navigate(mode, ch)
    \/ \E ch \in ShellChoices : ClickTimedStart(ch)
    \/ \E answer \in AnswerOptions : ClickTimedOption(answer)
    \/ \E answer \in AnswerOptions : ClickOption(answer)
    \/ ClickNext
    \/ \E ch \in ShellChoices : ClickStartNewQuiz(ch)
    \/ TimeoutFires
    \/ \E id \in intervals : IntervalFires(id)
    \/ TimePasses

NextTimer ==
    TimerStart \/ TimerStop \/ TimerReset \/ TimerIsRunning \/ SecondElapses

Next ==
    \/ NextSession \/ NextTimed \/ NextProgress \/ NextSelection \/ NextList
    \/ NextScore \/ NextMastery \/ NextStats \/ NextTopics \/ NextTimer
    \/ NextPartition \/ NextShuffle \/ NextStorage \/ NextShell

Spec == Init /\ [][Next]_vars

\* the callers of the operations that are handed an object or a list
InitCallers == focus \in {"session", "progress", "selection"} /\ Init
NextCallers == NextSession \/ NextProgress \/ NextSelection
SpecCallers == InitCallers /\ [][NextCallers]_vars

InitSession == focus = "session" /\ Init
SpecSession == InitSession /\ [][NextSession]_vars

InitTimed == focus = "timed" /\ Init
SpecTimed == InitTimed /\ [][NextTimed]_vars

InitProgress == focus = "progress" /\ Init
SpecProgress == InitProgress /\ [][NextProgress]_vars

InitSelection == focus = "selection" /\ Init
SpecSelection == InitSelection /\ [][NextSelection]_vars

InitList == focus = "list" /\ Init
SpecList == InitList /\ [][NextList]_vars

InitScore == focus = "score" /\ Init
SpecScore == InitScore /\ [][NextScore]_vars

InitMastery == focus = "mastery" /\ Init
SpecMastery == InitMastery /\ [][NextMastery]_vars

InitStats == focus = "stats" /\ Init
SpecStats == InitStats /\ [][NextStats]_vars

InitTopics == focus = "topics" /\ Init
SpecTopics == InitTopics /\ [][NextTopics]_vars

InitPartition == focus = "partition" /\ Init
SpecPartition == InitPartition /\ [][NextPartition]_vars

InitShuffle == focus = "shuffle" /\ Init
SpecShuffle == InitShuffle /\ [][NextShuffle]_vars

InitStorage == focus = "storage" /\ Init
SpecStorage == InitStorage /\ [][NextStorage]_vars

InitShell == focus = "shell" /\ Init
SpecShell == InitShell /\ [][NextShell]_vars

\* the event loop lets time pass and runs every callback that is due
SpecShellFair ==
    /\ SpecShell
    /\ WF_vars(TimePasses)
    /\ WF_vars(TimeoutFires)
    /\ WF_vars(\E id \in intervals : IntervalFires(id))

InitTimer == focus = "timer" /\ Init
SpecTimer == InitTimer /\ [][NextTimer]_vars

\* setInterval runs its callback every second for as long as it is scheduled
SpecCountdown == SpecTimer /\ WF_vars(SecondElapses)


(***************************************************************************)
(* Properties                                                              *)
(***************************************************************************)

\* The classification rule of the design (section 4.2), on exact integers:
\* accuracy >= 0.8 is 5 * correctCount >= 4 * attempts.
MasteryRule(attempts, correctCount) ==
    IF attempts < 3 THEN "new"
    ELSE IF attempts >= 5 /\ 5 * correctCount >= 4 * attempts THEN "mastered"
    ELSE "learning"

\* x / y rounded to the nearest integer, an exact midpoint rounded up
RoundHalfUp(x, y) == (2 * x + y) \div (2 * y)

\* C1: every UserProgress record reachable from createProgress by
\* updateProgress, resetProgress and resetAllProgress steps has
\* attempts = correctCount + incorrectCount.
C1_AttemptsAreCorrectPlusIncorrect ==
    \A i \in 1..Len(progressList) :
        progressList[i].attempts
            = progressList[i].correctCount + progressList[i].incorrectCount

\* a record with answers of both kinds, after a reset of some record
C1_Witness ==
    /\ lastOp.op \in {"resetProgress", "resetAllProgress", "updateProgress"}
    /\ \E i \in 1..Len(progressList) :
          /\ progressList[i].correctCount >= 2
          /\ progressList[i].incorrectCount >= 1

\* C2: the mastery tag stored in every reachable record is the value of the
\* classification rule on that record's own attempts and correctCount.
C2_StoredMasteryFollowsRule ==
    \A i \in 1..Len(progressList) :
        progressList[i].mastery
            = MasteryRule(progressList[i].attempts, progressList[i].correctCount)

\* a record that has just become 'mastered'
C2_Witness ==
    /\ lastOp.op = "updateProgress"
    /\ argBefore.mastery = "learning"
    /\ progressList[lastOp.index].mastery = "mastered"

\* C3: a session's stored score is calculateScore of its own cumulative
\* totals and mode once an answer is recorded, it is 0 on a new session, and
\* the mode stays the one the session was created with.
C3_ScoreReflectsTotals ==
    /\ session.questionsAnswered = 0 => session.score = 0
    /\ session.questionsAnswered > 0 =>
          session.score = calculateScore(session.correctAnswers,
                                         session.questionsAnswered,
                                         session.timeElapsed, session.mode)
    /\ lastOp.op = "createSession" => session.mode = lastOp.mode
    /\ lastOp.op = "updateSession" => session.mode = argBefore.mode

\* a timed session whose latest answer alone would score differently
C3_Witness ==
    /\ lastOp.op = "updateSession"
    /\ session.mode = "timed"
    /\ session.questionsAnswered = 3
    /\ session.correctAnswers = 2
    /\ session.score # calculateScore(IF lastOp.isCorrect THEN 1 ELSE 0, 1,
                                      lastOp.timeTaken, session.mode)

\* C4: calculateMastery returns 'new' below 3 attempts, 'mastered' from 5
\* attempts on with 5 * correctCount >= 4 * attempts, 'learning' otherwise,
\* whatever tag the record carries.
C4_CalculateMasteryIsTheRule ==
    lastOp.op = "calculateMastery" =>
        result = MasteryRule(args.attempts, args.correctCount)

\* 4 correct of 5 is 'mastered' (and the record carried another tag)
C4_Witness ==
    /\ lastOp.op = "calculateMastery"
    /\ args.attempts = 5 /\ args.correctCount = 4 /\ args.mastery = "new"
    /\ result = "mastered"

\* C5: mastery is not permanent: an incorrect answer on a 'mastered' record
\* that brings 5 * correctCount below 4 * attempts leaves it 'learning' (and
\* one that does not leaves it 'mastered').
C5_MasteredRegressesBelowThreshold ==
    (/\ lastOp.op = "updateProgress"
     /\ ~lastOp.isCorrect
     /\ argBefore.mastery = "mastered")
    => (result.mastery = "learning"
            <=> 5 * result.correctCount < 4 * result.attempts)

\* 4 correct of 5 ('mastered'), then one incorrect answer: 'learning'
C5_Witness ==
    /\ lastOp.op = "updateProgress"
    /\ ~lastOp.isCorrect
    /\ argBefore.mastery = "mastered"
    /\ argBefore.attempts = 5 /\ argBefore.correctCount = 4
    /\ progressList[lastOp.index].mastery = "learning"

\* C6: updateProgress returns a record with the same questionId, attempts
\* one higher, and exactly one of correctCount (isCorrect) and
\* incorrectCount (not isCorrect) one higher, the other unchanged.
C6_UpdateProgressCounts ==
    lastOp.op = "updateProgress" =>
        /\ result.questionId = argBefore.questionId
        /\ result.attempts = argBefore.attempts + 1
        /\ lastOp.isCorrect =>
              /\ result.correctCount = argBefore.correctCount + 1
              /\ result.incorrectCount = argBefore.incorrectCount
        /\ ~lastOp.isCorrect =>
              /\ result.incorrectCount = argBefore.incorrectCount + 1
              /\ result.correctCount = argBefore.correctCount
        /\ progressList[lastOp.index] = result

\* an incorrect answer recorded on a record that already has correct ones
C6_Witness ==
    /\ lastOp.op = "updateProgress"
    /\ ~lastOp.isCorrect
    /\ argBefore.correctCount = 2
    /\ result.incorrectCount = 1

\* C7: updateSession returns a session with questionsAnswered one higher,
\* correctAnswers one higher iff isCorrect, timeElapsed higher by timeTaken,
\* and the same mode and startTime.
C7_UpdateSessionCounts ==
    lastOp.op = "updateSession" =>
        /\ result.questionsAnswered = argBefore.questionsAnswered + 1
        /\ result.correctAnswers
              = argBefore.correctAnswers + (IF lastOp.isCorrect THEN 1 ELSE 0)
        /\ result.timeElapsed = argBefore.timeElapsed + lastOp.timeTaken
        /\ result.mode = argBefore.mode
        /\ result.startTime = argBefore.startTime
        /\ session = result

\* a timeout recorded, after the clock moved, on a session with time on it
C7_Witness ==
    /\ lastOp.op = "updateSession"
    /\ ~lastOp.isCorrect
    /\ lastOp.timeTaken = TIMED_SECONDS_PER_QUESTION
    /\ argBefore.timeElapsed = 5
    /\ argBefore.correctAnswers = 1
    /\ now # session.startTime

\* C8: after updateSession, updateProgress, resetProgress, selectQuestions
\* or sortByMasteryPriority the object passed in equals, field for field
\* and element for element, the copy taken before the call.
C8_ArgumentsNotMutated ==
    lastOp.op \in {"updateSession", "updateProgress", "resetProgress",
                   "selectQuestions", "sortByMasteryPriority"}
        => argAfter = argBefore

\* a sort that returned another order than the list it was given
C8_Witness ==
    /\ lastOp.op = "sortByMasteryPriority"
    /\ Len(argBefore) >= 2
    /\ result # argBefore

\* C9: in 'quiz' and 'flashcard' mode calculateScore is 100 * correctAnswers
\* / totalQuestions rounded to the nearest integer, midpoint up, whatever
\* timeElapsed is.
C9_UntimedScoreIsRoundedPercentage ==
    (lastOp.op = "calculateScore" /\ args.mode \in {"quiz", "flashcard"})
        => result = RoundHalfUp(100 * args.correctAnswers, args.totalQuestions)

\* C10: in 'timed' mode calculateScore is
\* round(100 * correctAnswers / totalQuestions
\*       + max(0, 20 - timeElapsed / totalQuestions)), rounded once.
C10_TimedScoreIsRoundedSum ==
    (lastOp.op = "calculateScore" /\ args.mode = "timed")
        => result = RoundHalfUp(100 * args.correctAnswers
                                   + (IF 20 * args.totalQuestions > args.timeElapsed
                                      THEN 20 * args.totalQuestions - args.timeElapsed
                                      ELSE 0),
                                args.totalQuestions)


C12_TimedScoreNonIncreasingInTime ==
    (lastOp.op = "calculateScore" /\ args.mode = "timed") =>
        \A e2 \in ElapsedInputs(args.totalQuestions) :
            e2 >= args.timeElapsed =>
                result >= calculateScore(args.correctAnswers, args.totalQuestions,
                                         e2, "timed")

\* a call whose score is strictly above the score of the same call one second
\* later, and equal to the score one second earlier
C12_Witness ==
    /\ lastOp.op = "calculateScore"
    /\ args.mode = "timed"
    /\ args.timeElapsed > 0
    /\ result > calculateScore(args.correctAnswers, args.totalQuestions,
                               args.timeElapsed + 1, "timed")
    /\ result = calculateScore(args.correctAnswers, args.totalQuestions,
                               args.timeElapsed - 1, "timed")

(***************************************************************************)
(* C13: once timeElapsed reaches 20 * totalQuestions the timed score is    *)
(* the quiz-mode score of the same inputs, and the bonus is never above 20.*)
(***************************************************************************)
C13_BonusVanishesAtTwentySeconds ==
    (lastOp.op = "calculateScore" /\ args.mode = "timed") =>
        /\ args.timeElapsed >= 20 * args.totalQuestions =>
               result = calculateScore(args.correctAnswers, args.totalQuestions,
                                       args.timeElapsed, "quiz")
        /\ NumGeq(Num(20), timeBonus(args.timeElapsed, args.totalQuestions))

\* a call at exactly 20 s per question, with a non-zero score, whose score one
\* second earlier was still above the quiz-mode score
C13_Witness ==
    /\ lastOp.op = "calculateScore"
    /\ args.mode = "timed"
    /\ args.timeElapsed = 20 * args.totalQuestions
    /\ result > 0
    /\ calculateScore(args.correctAnswers, args.totalQuestions,
                      args.timeElapsed - args.totalQuestions, "timed") = result + 1

(***************************************************************************)
(* C14: a timed run of ten questions, each answered correctly in 5 s, ends *)
(* with questionsAnswered = 10, correctAnswers = 10, timeElapsed = 50 and  *)
(* score = 115.                                                            *)
(***************************************************************************)
C14_TenQuickCorrectAnswersScore115 ==
    (/\ focus = "timed"
     /\ session.mode = "timed"
     /\ args.currentQuestionIndex = 10
     /\ args.quickCorrect = 10) =>
        /\ session.questionsAnswered = 10
        /\ session.correctAnswers = 10
        /\ session.timeElapsed = 50
        /\ session.score = 115

\* the end of such a run: the tenth call of updateSession has returned
C14_Witness ==
    /\ focus = "timed"
    /\ lastOp.op = "updateSession"
    /\ session.mode = "timed"
    /\ args.currentQuestionIndex = 10
    /\ args.quickCorrect = 10
    /\ result = session

\* the number of positions of the sequence s that hold x
Occurrences(s, x) == Cardinality({i \in 1..Len(s) : s[i] = x})

\* s is a sub-multiset of u
SubMultiset(s, u) == \A i \in 1..Len(s) : Occurrences(s, s[i]) <= Occurrences(u, s[i])

\* the catalog questions a config asks for, in catalog order
Matching(catalog, config) ==
    LET wanted(q) ==
            /\ (config.gradeLevel # "" /\ config.gradeLevel # "all") =>
                   q.gradeLevel = config.gradeLevel
            /\ config.topic # "" => q.topic = config.topic
    IN  SelectSeq(catalog, wanted)

(***************************************************************************)
(* C15: the result of selectQuestions is a sub-multiset of the questions   *)
(* matching the config's filters; it has min(questionCount, |F|) elements  *)
(* when a questionCount >= 0 is supplied, 0 included, and |F| when it is   *)
(* absent.                                                                 *)
(***************************************************************************)
C15_SelectionSizeIsMinOfCountAndFiltered ==
    lastOp.op = "selectQuestions" =>
        LET F == Matching(argBefore, lastOp.config)
            questionCount == lastOp.config.questionCount
        IN  /\ SubMultiset(result, F)
            /\ Len(result) = IF questionCount = Absent THEN Len(F)
                              ELSE Min(questionCount[1], Len(F))

\* s and u hold the same elements the same number of times
SameMultiset(s, u) == SubMultiset(s, u) /\ SubMultiset(u, s)

(***************************************************************************)
(* C16: filtering the catalog by grade level and then by topic gives the   *)
(* same multiset of questions as filtering by topic and then by grade      *)
(* level, so what selectQuestions returns is drawn from the same questions *)
(* in either order.                                                        *)
(***************************************************************************)
C16_GradeAndTopicFiltersCommute ==
    lastOp.op = "selectQuestions" =>
        LET config == lastOp.config
            gradeThenTopic == filterByTopic(filterByGrade(argBefore, config), config)
            topicThenGrade == filterByGrade(filterByTopic(argBefore, config), config)
        IN  /\ SameMultiset(gradeThenTopic, topicThenGrade)
            /\ SubMultiset(result, topicThenGrade)

\* a selection where each filter alone removes a question the other keeps:
\* '4-5' and 'solar' on the catalog leave q2 only
C16_Witness ==
    /\ lastOp.op = "selectQuestions"
    /\ lastOp.config.gradeLevel = "4-5"
    /\ lastOp.config.topic = "solar"
    /\ Len(filterByGrade(argBefore, lastOp.config)) = 2
    /\ Len(filterByTopic(argBefore, lastOp.config)) = 1
    /\ Len(result) = 1
    /\ result[1].id = "q2"

(***************************************************************************)
(* C17: checkAnswer(q, a) is true when a is q.correctAnswer and false for  *)
(* every other choice key a.                                               *)
(***************************************************************************)
C17_CheckAnswerIffCorrectAnswer ==
    lastOp.op = "checkAnswer" =>
        /\ args.answer = lastOp.question.correctAnswer => result = TRUE
        /\ args.answer # lastOp.question.correctAnswer => result = FALSE

\* a wrong answer to a question that is not the first of its list
C17_Witness ==
    /\ lastOp.op = "checkAnswer"
    /\ args.currentIndex > 0
    /\ lastOp.question.correctAnswer = "c"
    /\ args.answer = "d"
    /\ result = FALSE

(***************************************************************************)
(* C18: isQuizComplete(index, list.length) is true exactly when            *)
(* index >= list.length, which is exactly when getNextQuestion(list, index)*)
(* returns null; for an index within the list getNextQuestion returns the  *)
(* question at that index.                                                 *)
(***************************************************************************)
C18_EndOfSetSignalledConsistently ==
    LET list == args.questions
        index == args.currentIndex
    IN  /\ lastOp.op = "isQuizComplete" =>
               /\ result = (index >= Len(list))
               /\ result = (getNextQuestion(list, index) = Null)
        /\ lastOp.op = "getNextQuestion" =>
               /\ (result = Null) = (index >= Len(list))
               /\ (result = Null) = isQuizComplete(index, Len(list))
               /\ index < Len(list) => result = list[index + 1]

\* the position just past the end of a non-empty list: complete, no question
C18_Witness ==
    /\ lastOp.op = "isQuizComplete"
    /\ Len(args.questions) > 0
    /\ args.currentIndex = Len(args.questions)
    /\ result = TRUE
    /\ getNextQuestion(args.questions, args.currentIndex) = Null
    /\ getNextQuestion(args.questions, args.currentIndex - 1) # Null

\* the place of a question in the order new, learning, mastered; a question the
\* mapping does not hold counts as new
MasteryRank(progressMap, q) ==
    IF q.id \notin DOMAIN progressMap THEN 0
    ELSE CASE progressMap[q.id] = "new" -> 0
           [] progressMap[q.id] = "learning" -> 1
           [] progressMap[q.id] = "mastered" -> 2

\* the rearrangements of the positions 1..n
Permutations(n) == {f \in [1..n -> 1..n] : \A i, j \in 1..n : f[i] = f[j] => i = j}

(***************************************************************************)
(* C19: sortByMasteryPriority returns a permutation of its input in which  *)
(* new (or unmapped) questions come before learning ones and learning ones *)
(* before mastered ones, and questions of the same priority keep their     *)
(* relative order.                                                         *)
(***************************************************************************)
C19_SortIsStablePermutationByMastery ==
    lastOp.op = "sortByMasteryPriority" =>
        LET rank(q) == MasteryRank(lastOp.progressMap, q)
            n == Len(result)
        IN  /\ n = Len(argBefore)
            /\ \A i, j \in 1..n : i < j => rank(result[i]) <= rank(result[j])
            /\ \E from \in Permutations(n) :
                  /\ \A i \in 1..n : result[i] = argBefore[from[i]]
                  /\ \A i, j \in 1..n :
                        (i < j /\ rank(result[i]) = rank(result[j])) => from[i] < from[j]

\* a sort that had to move questions: all three priorities occur, two
\* questions share one, and a mastered question came before a learning one
C19_Witness ==
    /\ lastOp.op = "sortByMasteryPriority"
    /\ result # argBefore
    /\ LET rank(q) == MasteryRank(lastOp.progressMap, q)
           n == Len(argBefore)
       IN  /\ {rank(argBefore[i]) : i \in 1..n} = {0, 1, 2}
           /\ \E i, j \in 1..n : i < j /\ rank(argBefore[i]) = rank(argBefore[j])
           /\ \E i, j \in 1..n : i < j /\ rank(argBefore[i]) = 2 /\ rank(argBefore[j]) = 1

\* x comes before y in ascending string order
TopicBefore(x, y) == stringLess(x, y)

(***************************************************************************)
(* C20: getTopics returns the distinct topics of the question list, each   *)
(* once, in ascending order; questions without a topic add nothing, and a  *)
(* list without topics gives the empty sequence.                           *)
(***************************************************************************)
C20_TopicsAreDistinctAndSorted ==
    lastOp.op = "getTopics" =>
        LET list == args.questions
            present == {list[i].topic : i \in 1..Len(list)} \ {""}
        IN  /\ {result[i] : i \in 1..Len(result)} = present
            /\ Len(result) = Cardinality(present)
            /\ \A i, j \in 1..Len(result) : i < j => TopicBefore(result[i], result[j])
            /\ present = {} => result = <<>>

\* a list that names 'wind' before 'solar', 'wind' twice, and holds the
\* question without a topic
C20_Witness ==
    /\ lastOp.op = "getTopics"
    /\ Len(args.questions) = 3
    /\ args.questions[1].topic = "wind"
    /\ args.questions[2].topic = "solar"
    /\ args.questions[3].topic = "wind"
    /\ result = <<"solar", "wind">>

\* ---- progress statistics ----

\* the record a list of records with distinct ids holds for a question
HasRecord(list, id) == \E i \in DOMAIN list : list[i].questionId = id
RecordFor(list, id) == list[CHOOSE i \in DOMAIN list : list[i].questionId = id]

\* the sum of the values of a function with a finite domain
RECURSIVE SumOf(_)
SumOf(f) ==
    IF DOMAIN f = {} THEN 0
    ELSE LET x == CHOOSE y \in DOMAIN f : TRUE
         IN  f[x] + SumOf([y \in DOMAIN f \ {x} |-> f[y]])

\* the catalog positions of the questions that have a record in the list
Recorded(list) ==
    {i \in DOMAIN mockQuestions : HasRecord(list, mockQuestions[i].id)}

\* C21: calculateStats counts every catalog question once: as new when the
\* list has no record for it, otherwise in the bucket named by the record's
\* stored mastery tag, whatever its counters say; totalQuestions is the
\* length of the catalog.
C21_StatsBucketByStoredTag ==
    lastOp.op = "calculateStats" =>
        LET Tag(q) == IF HasRecord(args, q.id) THEN RecordFor(args, q.id).mastery
                      ELSE "new"
            Count(m) == Cardinality({i \in DOMAIN mockQuestions :
                                        Tag(mockQuestions[i]) = m})
        IN  /\ result.totalQuestions = Len(mockQuestions)
            /\ result.newQuestions = Count("new")
            /\ result.learningQuestions = Count("learning")
            /\ result.masteredQuestions = Count("mastered")

\* a record tagged mastered whose counters class it as new, beside catalog
\* questions without a record
C21_Witness ==
    /\ lastOp.op = "calculateStats"
    /\ \E i \in DOMAIN args :
          /\ args[i].questionId = "q1"
          /\ args[i].mastery = "mastered"
          /\ MasteryRule(args[i].attempts, args[i].correctCount) = "new"
    /\ ~HasRecord(args, "q2")
    /\ result.masteredQuestions = 1
    /\ result.newQuestions = 3

\* C22: overallAccuracy is the quotient of the summed correctCount by the
\* summed attempts of the catalog questions that have a record, and 0 when
\* the summed attempts are 0; a record of a question the catalog does not
\* hold adds to neither sum.
C22_OverallAccuracyOverCatalogRecords ==
    lastOp.op = "calculateStats" =>
        LET correct == SumOf([i \in Recorded(args) |->
                                RecordFor(args, mockQuestions[i].id).correctCount])
            attempts == SumOf([i \in Recorded(args) |->
                                 RecordFor(args, mockQuestions[i].id).attempts])
        IN  result.overallAccuracy =
                IF attempts = 0 THEN Num(0) ELSE NumDiv(correct, attempts)

\* a record outside the catalog with attempts of its own beside a catalog
\* record answered once in two attempts
C22_Witness ==
    /\ lastOp.op = "calculateStats"
    /\ \E i \in DOMAIN args : args[i].questionId = "q9" /\ args[i].attempts = 2
                              /\ args[i].correctCount = 2
    /\ \E i \in DOMAIN args : args[i].questionId = "q1" /\ args[i].attempts = 2
                              /\ args[i].correctCount = 1
    /\ result.overallAccuracy = NumDiv(1, 2)

\* C23: the topic breakdown holds one entry for every topic that tags a
\* catalog question with a record and no other entry; the entry's correct and
\* total are the sums of correctCount and attempts over those questions.
C23_TopicBreakdownSumsPerTopic ==
    lastOp.op = "calculateStats" =>
        LET b == result.topicBreakdown
            Tagged(T) == {i \in Recorded(args) : mockQuestions[i].topic = T}
            Entries(T) == {k \in DOMAIN b : b[k].topic = T}
        IN  /\ \A k \in DOMAIN b : b[k].topic # "" /\ Tagged(b[k].topic) # {}
            /\ \A i \in DOMAIN mockQuestions :
                  LET T == mockQuestions[i].topic
                  IN  T # "" /\ Tagged(T) # {} =>
                          /\ Cardinality(Entries(T)) = 1
                          /\ \A k \in Entries(T) :
                                /\ b[k].correct =
                                     SumOf([j \in Tagged(T) |->
                                        RecordFor(args, mockQuestions[j].id).correctCount])
                                /\ b[k].total =
                                     SumOf([j \in Tagged(T) |->
                                        RecordFor(args, mockQuestions[j].id).attempts])

\* two wind questions answered 4 of 5 and 3 of 5
C23_Witness ==
    /\ lastOp.op = "calculateStats"
    /\ args = <<StatsFixture("q1", 5, 4, "mastered"),
                StatsFixture("q3", 5, 3, "learning")>>
    /\ result.topicBreakdown = <<[topic |-> "wind", correct |-> 7, total |-> 10]>>

\* C24: getQuestionsNeedingReview returns the catalog questions that have no
\* record or whose record is not tagged mastered, in the catalog's order.
C24_ReviewKeepsUnmasteredInCatalogOrder ==
    lastOp.op = "getQuestionsNeedingReview" =>
        LET Needs(q) == \/ ~HasRecord(args, q.id)
                        \/ RecordFor(args, q.id).mastery # "mastered"
        IN  result = SelectSeq(mockQuestions, Needs)

\* a mastered question left out, an unmastered one and two without a record
\* kept
C24_Witness ==
    /\ lastOp.op = "getQuestionsNeedingReview"
    /\ HasRecord(args, "q2") /\ RecordFor(args, "q2").mastery = "mastered"
    /\ HasRecord(args, "q3") /\ RecordFor(args, "q3").mastery = "learning"
    /\ [i \in DOMAIN result |-> result[i].id] = <<"q1", "q3", "q4">>

\* C25: getWeakestTopics returns the first limit (3 when no limit is given)
\* names of the topics with total > 0, ranked by ascending correct/total and,
\* for equal ratios, by their place in the mapping.
C25_WeakestTopicsRanked ==
    lastOp.op = "getWeakestTopics" =>
        LET b == args.stats.topicBreakdown
            limit == IF args.limit = Absent THEN 3 ELSE args.limit[1]
            Pos(name) == CHOOSE i \in DOMAIN b : b[i].topic = name
            Before(i, j) ==
                \/ b[i].correct * b[j].total < b[j].correct * b[i].total
                \/ /\ b[i].correct * b[j].total = b[j].correct * b[i].total
                   /\ i < j
            attempted == {i \in DOMAIN b : b[i].total > 0}
            listed == {Pos(result[k]) : k \in DOMAIN result}
        IN  /\ Len(result) <= limit
            /\ Len(result) = Min(limit, Cardinality(attempted))
            /\ \A k \in DOMAIN result :
                  \E i \in attempted : b[i].topic = result[k]
            /\ \A k \in 1..(Len(result) - 1) :
                  Before(Pos(result[k]), Pos(result[k + 1]))
            /\ \A i \in attempted \ listed : \A j \in listed : Before(j, i)

\* four attempted topics, two of them with the same ratio, and no limit given
C25_Witness ==
    /\ lastOp.op = "getWeakestTopics"
    /\ args.limit = Absent
    /\ [i \in DOMAIN args.stats.topicBreakdown |->
           <<args.stats.topicBreakdown[i].correct,
             args.stats.topicBreakdown[i].total>>]
         = <<<<2, 2>>, <<1, 2>>, <<1, 1>>, <<0, 1>>>>
    /\ result = <<"hydro", "solar", "wind">>

\* a record in the zero state: no attempts, no answers counted, tagged new
ZeroState(p) ==
    /\ p.attempts = 0
    /\ p.correctCount = 0
    /\ p.incorrectCount = 0
    /\ p.mastery = "new"

\* C26: resetProgress(p) returns the zero-state record of p's question, the
\* record createProgress(p.questionId) makes but for the timestamp;
\* resetAllProgress returns a list of the same length with the same question
\* ids at the same places, every record in the zero state.
C26_ResetYieldsZeroState ==
    /\ lastOp.op = "resetProgress" =>
          /\ result.questionId = argBefore.questionId
          /\ ZeroState(result)
          /\ [result EXCEPT !.lastAttempted = 0]
               = [createProgress(argBefore.questionId) EXCEPT !.lastAttempted = 0]
    /\ lastOp.op = "resetAllProgress" =>
          /\ Len(result) = Len(argBefore)
          /\ \A i \in DOMAIN argBefore :
                /\ result[i].questionId = argBefore[i].questionId
                /\ ZeroState(result[i])

\* a list of two records, one of them mastered, reset as a whole
C26_Witness ==
    /\ lastOp.op = "resetAllProgress"
    /\ Len(argBefore) >= 2
    /\ \E i \in DOMAIN argBefore :
          argBefore[i].mastery = "mastered" /\ argBefore[i].attempts >= 3
    /\ \A i \in DOMAIN result : ZeroState(result[i])

\* ---- countdown timer ----

\* the calls made to the timer, and the calls the timer made, so far
IsCall(e) == e.op \in {"start", "stop", "reset"}
IsCallback(e) == e.op \in {"onTick", "onComplete"}

\* the callbacks of one full countdown from d: d-1, ..., 0, then onComplete
Countdown(d) ==
    [i \in 1..d |-> [op |-> "onTick", value |-> d - i]]
        \o <<[op |-> "onComplete", value |-> 0]>>

\* the timer has been started once and not been called since
StartedOnce ==
    /\ events # <<>>
    /\ events[1].op = "start"
    /\ \A i \in 2..Len(events) : IsCallback(events[i])

CountedDown == events = <<[op |-> "start", value |-> 0]>> \o Countdown(timer.duration)

\* C27: a timer of duration d >= 1 that is started once and then left alone
\* calls onTick with d-1, ..., 0 in that order, one call a second, then stops
\* itself and calls onComplete once, and calls nothing after that: what it
\* has called is at every moment the beginning of that countdown, the
\* countdown is completed, and the timer that completed it is stopped.
C27_CountdownRunsToCompletionOnce ==
    /\ [](StartedOnce =>
            /\ Len(events) <= 1 + Len(Countdown(timer.duration))
            /\ SubSeq(events, 2, Len(events))
                 = SubSeq(Countdown(timer.duration), 1, Len(events) - 1)
            /\ timer.remaining = timer.duration - Min(Len(events) - 1, timer.duration)
            /\ isRunning(TimerState) <=> ~CountedDown
            /\ CountedDown => intervals = {})
    /\ (StartedOnce ~> (CountedDown \/ ~StartedOnce))

\* a second that passes after the countdown from 2 or more has completed
C27_Witness ==
    /\ timer.duration >= 2
    /\ CountedDown
    /\ lastOp.op = "second"
    /\ argBefore.events = events

\* what the last operation added to the recorded calls
Added == SubSeq(events, Len(argBefore.events) + 1, Len(events))

TicksAdded == {i \in DOMAIN Added : Added[i].op = "onTick"}

\* C28: start() on a running timer changes nothing: however many times
\* start() is called, one periodic callback is scheduled, and a second that
\* elapses on a running timer takes exactly 1 off remaining and calls onTick
\* exactly once, with the new remaining.
C28_StartOnRunningTimerIsNoOp ==
    /\ Cardinality(intervals) <= 1
    /\ lastOp.op = "start" =>
          /\ intervals = {timer.intervalId}
          /\ Cardinality(intervals) = 1
          /\ Added = <<[op |-> "start", value |-> 0]>>
          /\ isRunning(argBefore) =>
                timer = argBefore.timer /\ intervals = argBefore.intervals
    /\ lastOp.op = "second" /\ isRunning(argBefore) =>
          /\ timer.remaining = argBefore.timer.remaining - 1
          /\ Cardinality(TicksAdded) = 1
          /\ \A i \in TicksAdded : Added[i].value = timer.remaining

\* a second elapsing after start() was called twice in a row
C28_Witness ==
    /\ lastOp.op = "second"
    /\ argBefore.events = <<[op |-> "start", value |-> 0], [op |-> "start", value |-> 0]>>
    /\ timer.duration >= 2
    /\ timer.remaining = timer.duration - 1
    /\ Added = <<[op |-> "onTick", value |-> timer.remaining]>>

\* what isRunning() answers now, and what it answered when it was called
RunningFlagHolds ==
    /\ events = <<>> => ~isRunning(TimerState)
    /\ lastOp.op = "start" => isRunning(TimerState)
    /\ lastOp.op \in {"stop", "reset"} => ~isRunning(TimerState)
    /\ lastOp.op = "second" /\ (\E i \in DOMAIN Added : Added[i].op = "onComplete") =>
          ~isRunning(TimerState)
    /\ lastOp.op = "isRunning" =>
          /\ result = Supplied(isRunning(argBefore))
          /\ timer = argBefore.timer /\ intervals = argBefore.intervals

\* start() was called after the i-th and before the j-th recorded call
StartBetween(i, j) == \E k \in (i + 1)..(j - 1) : events[k].op = "start"

\* C29 as stated: isRunning() is false on a new timer, true after start()
\* and false after stop(), reset() or completion; after a stop() no onTick
\* and no onComplete call is made before the next start().
C29_NoCallbackAfterStopUntilStart ==
    /\ RunningFlagHolds
    /\ \A i \in DOMAIN events : \A j \in DOMAIN events :
          events[i].op = "stop" /\ i < j /\ IsCallback(events[j]) =>
              StartBetween(i, j)

\* C29: isRunning() is false on a new timer, true after start() and false
\* after stop(), reset() or completion; after a stop() and before the next
\* start() the passing of time makes no onTick and no onComplete call: the
\* only call made then is the onTick(duration) of a reset().
C29_NoTickAfterStopUntilStart ==
    /\ RunningFlagHolds
    /\ lastOp.op = "second" /\ ~isRunning(argBefore) => Added = <<>>
    /\ \A i \in DOMAIN events : \A j \in DOMAIN events :
          events[i].op = "stop" /\ i < j /\ IsCallback(events[j]) =>
              \/ StartBetween(i, j)
              \/ /\ events[j] = [op |-> "onTick", value |-> timer.duration]
                 /\ events[j - 1].op = "reset"

\* a second elapsing on a timer stopped in the middle of its countdown
C29_Witness ==
    /\ lastOp.op = "second"
    /\ events = <<[op |-> "start", value |-> 0],
                  [op |-> "onTick", value |-> timer.duration - 1],
                  [op |-> "stop", value |-> 0]>>
    /\ argBefore.events = events
    /\ ~isRunning(TimerState)

\* the j-th recorded call is the first onTick of the countdown that follows
\* the reset() recorded at i: no reset() and no other onTick lies between
\* the onTick of that reset() and j
FirstTickAfterReset(i, j) ==
    /\ events[i].op = "reset"
    /\ i + 1 < j
    /\ events[j].op = "onTick"
    /\ \A k \in (i + 2)..(j - 1) : events[k].op \notin {"reset", "onTick"}

\* C30: reset(), in whatever state the timer is, stops it, sets remaining
\* back to the duration d and calls onTick(d) exactly once; the countdown
\* that a later start() begins reports d-1 as its first tick.
C30_ResetRestoresDuration ==
    /\ lastOp.op = "reset" =>
          /\ ~isRunning(TimerState)
          /\ intervals = {}
          /\ timer.remaining = timer.duration
          /\ Added = <<[op |-> "reset", value |-> 0],
                       [op |-> "onTick", value |-> timer.duration]>>
    /\ \A i \in DOMAIN events : \A j \in DOMAIN events :
          FirstTickAfterReset(i, j) =>
              /\ events[j].value = timer.duration - 1
              /\ StartBetween(i, j)

\* a running timer reset after its first tick, started again, and ticking
C30_Witness ==
    /\ timer.duration >= 2
    /\ events = <<[op |-> "start", value |-> 0],
                  [op |-> "onTick", value |-> timer.duration - 1],
                  [op |-> "reset", value |-> 0],
                  [op |-> "onTick", value |-> timer.duration],
                  [op |-> "start", value |-> 0],
                  [op |-> "onTick", value |-> timer.duration - 1]>>
    /\ lastOp.op = "second"


\* C38: every value a timer of duration d hands to onTick lies in 0..d, and
\* between two resets onComplete is called at most once, whatever calls of
\* start(), stop() and reset() and elapsing seconds come before.
C38_TickValuesWithinDuration ==
    /\ \A i \in DOMAIN events :
          events[i].op = "onTick" => events[i].value \in 0..timer.duration
    /\ \A i \in DOMAIN events : \A j \in DOMAIN events :
          i < j /\ events[i].op = "onComplete" /\ events[j].op = "onComplete" =>
              \E k \in (i + 1)..(j - 1) : events[k].op = "reset"


\* C39: whatever the catalog and whatever the list of records, with ids
\* shared by several records or unknown to the catalog, the three counts of
\* calculateStats add up to totalQuestions, which is the catalog's length.
C39_StatsCountsPartitionCatalog ==
    focus = "partition" /\ lastOp.op = "calculateStats" =>
        /\ result.totalQuestions = Len(args.allQuestions)
        /\ result.newQuestions + result.learningQuestions + result.masteredQuestions
             = result.totalQuestions

\* two records of q1 under different tags and one of q9, over a catalog that
\* holds q1 and a question without a record
C39_Witness ==
    /\ focus = "partition" /\ lastOp.op = "calculateStats"
    /\ [i \in DOMAIN args.progressList |->
           <<args.progressList[i].questionId, args.progressList[i].mastery>>]
         = <<<<"q1", "learning">>, <<"q9", "mastered">>, <<"q1", "mastered">>>>
    /\ [i \in DOMAIN args.allQuestions |-> args.allQuestions[i].id] = <<"q1", "q3", "q1">>
    /\ result.masteredQuestions = 2
    /\ result.newQuestions = 1


\* C40: updateProgress adds exactly 1 to attempts and never classifies as
\* 'new' a record that was 'learning' or 'mastered'; a record of the list
\* goes from 'learning' or 'mastered' to 'new' only by resetProgress or
\* resetAllProgress.
C40_MasteryLeavesNewForGood ==
    /\ [](lastOp.op = "updateProgress" =>
            /\ result.attempts = argBefore.attempts + 1
            /\ argBefore.mastery \in {"learning", "mastered"} =>
                  result.mastery \in {"learning", "mastered"})
    /\ [][\A i \in DOMAIN progressList :
             /\ i \in DOMAIN progressList'
             /\ progressList[i].mastery \in {"learning", "mastered"}
             /\ progressList'[i].mastery = "new"
             => lastOp'.op \in {"resetProgress", "resetAllProgress"}]_vars

\* a mastered record answered wrongly for the second time: back to learning,
\* not to new
C40_Witness ==
    /\ lastOp.op = "updateProgress"
    /\ argBefore.mastery = "mastered"
    /\ result.mastery = "learning"
    /\ result.attempts = argBefore.attempts + 1
    /\ result.incorrectCount >= 2


\* the orderings of an array: the array read through each permutation of its
\* positions
Orderings(array) ==
    {[i \in DOMAIN array |-> array[from[i]]] : from \in Permutations(Len(array))}

Distinct(array) ==
    \A i \in DOMAIN array : \A j \in DOMAIN array : array[i] = array[j] => i = j

\* C33: the shuffle returns a rearrangement of its input and leaves the
\* input as it was; on an input with distinct elements the results of all
\* choice sequences are exactly the orderings of the input, and two
\* different choice sequences give different results.
C33_ShuffleIsBijectionOntoOrderings ==
    /\ lastOp.op = "shuffleArray" =>
          /\ SameMultiset(result, args)
          /\ argAfter = argBefore
          /\ result \in Orderings(args)
    /\ focus = "shuffle" /\ lastOp.op = "init" /\ Distinct(args) =>
          LET choices == RandomChoices(Len(args))
              results == {shuffleArray(args, ch).ret : ch \in choices}
          IN  /\ results = Orderings(args)
              /\ Cardinality(results) = Cardinality(choices)

\* three distinct questions brought into the reverse order
C33_Witness ==
    /\ lastOp.op = "shuffleArray"
    /\ args = <<"q1", "q2", "q3">>
    /\ result = <<"q3", "q2", "q1">>
    /\ \A ch \in RandomChoices(3) : shuffleArray(args, ch).ret = result => ch = lastOp.ch


\* ---- storage ----

RecordFields ==
    {"questionId", "attempts", "correctCount", "incorrectCount", "lastAttempted", "mastery"}

\* the text denotes a list of progress records
IsListOfRecords(text) ==
    /\ text.kind = "json"
    /\ text.value.type = "array"
    /\ \A i \in DOMAIN text.value.items :
          /\ text.value.items[i].type = "object"
          /\ DOMAIN text.value.items[i].fields = RecordFields

SameRecord(p, q) ==
    /\ p.questionId = q.questionId
    /\ p.attempts = q.attempts
    /\ p.correctCount = q.correctCount
    /\ p.incorrectCount = q.incorrectCount
    /\ p.mastery = q.mastery

LoadsNothingStored ==
    lastOp.op = "loadProgress" /\ argBefore = Absent => result = SuccessWith(<<>>)

LoadsWhatWasSaved ==
    lastOp.op = "loadProgress" /\ lastOp.saved # Absent =>
        /\ result.success
        /\ Len(result.data) = Len(lastOp.saved[1])
        /\ \A i \in DOMAIN result.data : SameRecord(result.data[i], lastOp.saved[1][i])

\* every operation of the wrapper returns a result value
ReturnsResult ==
    lastOp.op \in {"loadProgress", "saveProgress", "clearProgress"} =>
        /\ result.success \in BOOLEAN
        /\ ~result.success => "error" \in DOMAIN result

\* C32: the storage wrapper returns a result and never throws; loadProgress
\* returns success with an empty list when nothing is stored, a failure with
\* an error when the stored text is not a list of records, and success with
\* the same records directly after a successful saveProgress.
C32_StorageReportsFailuresAsResults ==
    /\ ReturnsResult
    /\ LoadsNothingStored
    /\ LoadsWhatWasSaved
    /\ lastOp.op = "loadProgress" /\ argBefore # Absent =>
          (~IsListOfRecords(argBefore[1]) => ~result.success /\ "error" \in DOMAIN result)

\* ---- the shell ----
\* the question at currentQuestionIndex, and the record the tracker holds for
\* it (a new record when it holds none)
ShellQuestion == currentQuestions[shell.currentQuestionIndex + 1]

ShellProgress ==
    LET found == progressMapGet(progressList, ShellQuestion.id)
    IN  IF found # Absent THEN found[1] ELSE createProgress(ShellQuestion.id)

\* this step is the tick that ends the countdown of a question nobody answered
CountdownEndsUnanswered ==
    /\ focus = "shell"
    /\ intervals # {}
    /\ timer.remaining = 1
    /\ timer'.remaining = 0
    /\ ~shell.isAnswered
    /\ shell.currentQuestionIndex < Len(currentQuestions)

(***************************************************************************)
(* C31: when the countdown of a timed question completes before an answer  *)
(* is chosen, the outcome is recorded as an incorrect answer that took the  *)
(* full 15 seconds: the session becomes updateSession(session, false, 15)   *)
(* (one more question answered, no more correct answers, 15 more seconds)   *)
(* and the record of that question becomes updateProgress(progress, false)  *)
(* (one more attempt, one more incorrect answer).                           *)
(***************************************************************************)
C31_TimeoutRecordedAsIncorrectAfterFullTime ==
    [][CountdownEndsUnanswered =>
          /\ session' = updateSession(session, FALSE, 15).ret
          /\ session'.questionsAnswered = session.questionsAnswered + 1
          /\ session'.correctAnswers = session.correctAnswers
          /\ session'.timeElapsed = session.timeElapsed + 15
          /\ progressMapGet(progressList', ShellQuestion.id)
                = Supplied(updateProgress(ShellProgress, FALSE).ret)
          /\ progressMapGet(progressList', ShellQuestion.id)[1].attempts
                = ShellProgress.attempts + 1
          /\ progressMapGet(progressList', ShellQuestion.id)[1].incorrectCount
                = ShellProgress.incorrectCount + 1
          /\ \A i \in 1..Len(progressList) :
                progressList[i].questionId # ShellQuestion.id
                   => progressList'[i] = progressList[i]
          /\ shell'.isAnswered]_vars

\* the countdown of the first question of a timed run has run out and the
\* timeout is on the session and on the question's record
C31_Witness ==
    /\ focus = "shell"
    /\ shell.view = "timed"
    /\ session.mode = "timed"
    /\ timer.remaining = 0
    /\ shell.isAnswered
    /\ shell.currentQuestionIndex = 0
    /\ session.questionsAnswered = 1
    /\ session.correctAnswers = 0
    /\ session.timeElapsed = TIMED_SECONDS_PER_QUESTION
    /\ progressMapGet(progressList, ShellQuestion.id)[1].incorrectCount = 1

\* a timed run was started and the user has not clicked a navigation button
\* since: handleTimedStart disables the start button, and the completion
\* screen and startTimedMode enable it
InTimedRun == focus = "shell" /\ shell.view = "timed" /\ shell.startButtonDisabled

\* 1 if the question at currentQuestionIndex has its outcome, else 0
AnsweredNow == IF shell.isAnswered THEN 1 ELSE 0

(***************************************************************************)
(* C34: within one timed run with no mode navigation each presented        *)
(* question produces exactly one recorded outcome.  The run presents the   *)
(* questions 0 .. currentQuestionIndex, so the session counts one outcome  *)
(* for each question before the current one and one for the current        *)
(* question once it is answered or timed out; and a step within the run    *)
(* that records an outcome adds exactly 1 to session.questionsAnswered and  *)
(* to the attempts of the question on screen, which had no outcome yet.    *)
(***************************************************************************)
C34_OneOutcomePerPresentedQuestion ==
    /\ [](InTimedRun =>
             session.questionsAnswered = shell.currentQuestionIndex + AnsweredNow)
    /\ [][InTimedRun /\ InTimedRun'
             /\ session'.questionsAnswered # session.questionsAnswered =>
             /\ ~shell.isAnswered
             /\ session'.questionsAnswered = session.questionsAnswered + 1
             /\ progressMapGet(progressList', ShellQuestion.id)[1].attempts
                   = ShellProgress.attempts + 1]_vars

\* a callback of timed mode is scheduled: a countdown runs or a delayed
\* auto-advance is pending
TimedCallbackPending == intervals # {} \/ shell.timeouts # <<>>

\* this step is handleTimedStart: only it disables the start button
TimedRunStarts == ~shell.startButtonDisabled /\ shell'.startButtonDisabled

(***************************************************************************)
(* C35: after the user navigates from timed mode to another mode, or       *)
(* starts a new timed run, no countdown and no delayed auto-advance of the *)
(* earlier timed run is still pending.  Only timed mode schedules such     *)
(* callbacks, so none is pending while another view is active; and a new   *)
(* run begins with its own countdown and no auto-advance pending.          *)
(***************************************************************************)
C35_NoCallbackOutlivesItsRun ==
    /\ [](focus = "shell" /\ shell.view # "timed" => ~TimedCallbackPending)
    /\ [][focus = "shell" /\ TimedRunStarts => shell'.timeouts = <<>>]_vars

\* the quiz view is active and shows a question, before and after this step,
\* in one quiz run (a new run starts on a new session with nothing answered)
QuestionOnScreen == focus = "shell" /\ shell.view = "quiz" /\ shell.quizCard = "question"

WithinQuizRun ==
    /\ QuestionOnScreen
    /\ QuestionOnScreen'
    /\ ~(session' = createSession("quiz") /\ shell'.currentQuestionIndex = 0
            /\ ~shell'.isAnswered)

(***************************************************************************)
(* C36: in quiz mode the session is updated once per answered question and *)
(* with the outcome that goes to the progress tracker.  While a question   *)
(* is on screen session.questionsAnswered is currentQuestionIndex, plus 1  *)
(* once the question is answered, and never above the number of selected   *)
(* questions; a step that changes the session is the first answer to the   *)
(* question on screen and records one outcome, correct or not, on the      *)
(* session (with no time taken) and on that question's record alike; and   *)
(* the question index moves only once the question is answered.            *)
(***************************************************************************)
C36_QuizSessionUpdatedOncePerAnswer ==
    /\ [](QuestionOnScreen =>
             /\ session.questionsAnswered = shell.currentQuestionIndex + AnsweredNow
             /\ session.questionsAnswered <= Len(currentQuestions))
    /\ [][WithinQuizRun /\ session' # session =>
             /\ ~shell.isAnswered
             /\ shell'.isAnswered
             /\ \E isCorrect \in BOOLEAN :
                   /\ session' = updateSession(session, isCorrect, 0).ret
                   /\ progressMapGet(progressList', ShellQuestion.id)
                         = Supplied(updateProgress(ShellProgress, isCorrect).ret)]_vars
    /\ [][WithinQuizRun /\ shell'.currentQuestionIndex # shell.currentQuestionIndex =>
             /\ shell.isAnswered
             /\ shell'.currentQuestionIndex = shell.currentQuestionIndex + 1
             /\ session' = session]_vars

\* this step of a timed run brings up the completion screen
TimedRunCompletes ==
    InTimedRun /\ shell.timedCard # "complete" /\ shell'.timedCard = "complete"

(***************************************************************************)
(* C37: once a timed run over n selected questions has started and the     *)
(* user does not navigate away, then with time passing and every due       *)
(* callback run the run reaches the completion screen (so it does not stay *)
(* in progress for ever), and when it does no timer is running and         *)
(* session.questionsAnswered = n.                                          *)
(***************************************************************************)
C37_TimedRunTerminates ==
    /\ InTimedRun ~> ~InTimedRun
    /\ [][TimedRunCompletes =>
             /\ shell'.view = "timed"
             /\ intervals' = {}
             /\ ~shell'.timedTimer
             /\ shell'.timeouts = <<>>
             /\ session'.questionsAnswered = Len(currentQuestions')]_vars
=============================================================================
